---- MODULE Spec2Model ----
(***************************************************************************)
(* State-machine model of fabrix's SQL persistence engine (SqlExecutor)    *)
(* and of the connection provider / database it drives.                    *)
(*                                                                         *)
(* One engine instance issues one call at a time.  A call is a sequence of *)
(* steps, one per suspension point (round trip to the provider); pc is the *)
(* position inside the running call.  Every round trip may fail (backend   *)
(* error); on a closed handle every round trip fails.                      *)
(***************************************************************************)
EXTENDS Integers, Sequences, FiniteSets, TLC

\* ------------------------------------------------------------------ bounds
MaxRows == 2
MaxId == 2
\* expression builder: longest stack built, deepest nesting of groups
MaxWidth == 2
MaxLen == 3
MaxNodes == 3
MaxDepth == 1

\* ------------------------------------------------------------- value sets
IDs == 1..MaxId
Vals == {"a", "b"}
NoRow == "-"
Tables == {"dev"}
\* sample of ValueType for the index column of an input DataFrame
IndexTypes == {"I64", "String"}
Strategies == {"FailIfExists", "Replace", "Append", "Upsert"}

RECURSIVE SeqsUpTo(_, _)
SeqsUpTo(S, n) ==
    IF n = 0 THEN {<<>>}
    ELSE LET shorter == SeqsUpTo(S, n - 1)
         IN  shorter \cup {Append(s, x) : s \in {t \in shorter : Len(t) = n - 1}, x \in S}

Range(s) == {s[i] : i \in 1..Len(s)}

\* rows of s, in order, whose index value satisfies keep
RECURSIVE FilterRows(_, _)
FilterRows(s, keep) ==
    IF s = <<>> THEN <<>>
    ELSE IF Head(s).id \in keep THEN <<Head(s)>> \o FilterRows(Tail(s), keep)
         ELSE FilterRows(Tail(s), keep)

\* A DataFrame: an index column (id of each row) of one dtype and one data
\* column.  Index values are row identities.
DistinctIds(s) == \A i, j \in 1..Len(s) : i # j => s[i].id # s[j].id
RowSeqs == {s \in SeqsUpTo([id : IDs, val : Vals], MaxRows) : DistinctIds(s)}
DataFrames == [idxType : IndexTypes, rows : RowSeqs]
EmptyDF == [idxType |-> "I64", rows |-> <<>>]
IndexIds(df) == {df.rows[i].id : i \in 1..Len(df.rows)}

\* ---------------------------------------------------------------- results
Ok(n) == [ok |-> TRUE, val |-> n, err |-> "none"]
Err(e) == [ok |-> FALSE, val |-> 0, err |-> e]
Pending == [ok |-> FALSE, val |-> 0, err |-> "pending"]

\* ------------------------------------------------- IndexOption (sql_adt.rs)
IndexOptionTryFrom(dtype) ==
    CASE dtype \in {"U8", "U16", "U32", "I8", "I16", "I32", "F32"} -> Ok(1)
      [] dtype \in {"U64", "I64", "F64"} -> Ok(2)
      [] dtype = "Uuid" -> Ok(3)
      [] OTHER -> Err("IndexType")

\* --------------------------------------------------------------- database
\* One table: exists or not, has a primary key or not, and its rows keyed by
\* identity.
NoRows == [i \in IDs |-> NoRow]
AbsentTable == [exists |-> FALSE, pk |-> FALSE, rows |-> NoRows]
EmptyTable(pk) == [exists |-> TRUE, pk |-> pk, rows |-> NoRows]
TableIds(tb) == {i \in IDs : tb.rows[i] # NoRow}

\* outcome of one statement: the database after it and its ExecutionResult
Done(d, n) == [ok |-> TRUE, db |-> d, n |-> n]
Failed(d) == [ok |-> FALSE, db |-> d, n |-> 0]

DbCreate(d, t) ==
    IF d[t].exists THEN Failed(d)
    ELSE Done([d EXCEPT ![t] = EmptyTable(TRUE)], 0)

DbDrop(d, t) ==
    IF ~d[t].exists THEN Failed(d)
    ELSE Done([d EXCEPT ![t] = AbsentTable], 0)

\* INSERT of the rows of df with their index values as keys
DbInsert(d, t, df) ==
    IF ~d[t].exists \/ IndexIds(df) \cap TableIds(d[t]) # {} \/ ~DistinctIds(df.rows)
    THEN Failed(d)
    ELSE Done([d EXCEPT ![t].rows =
                 [i \in IDs |-> IF i \in IndexIds(df)
                                THEN (CHOOSE r \in Range(df.rows) : r.id = i).val
                                ELSE @[i]]],
              Len(df.rows))

\* the keys the server generates for k new rows: the k smallest unused ones
RECURSIVE FreshIds(_, _)
FreshIds(used, k) ==
    IF k = 0 THEN <<>>
    ELSE LET i == CHOOSE x \in IDs \ used : \A y \in IDs \ used : x <= y
         IN  <<i>> \o FreshIds(used \cup {i}, k - 1)

\* INSERT with the primary key left out: the server generates the keys
DbInsertNoKey(d, t, df) ==
    IF ~d[t].exists \/ Cardinality(IDs \ TableIds(d[t])) < Len(df.rows)
    THEN Failed(d)
    ELSE LET ks == FreshIds(TableIds(d[t]), Len(df.rows))
         IN  Done([d EXCEPT ![t].rows =
                     [i \in IDs |-> IF \E j \in 1..Len(ks) : ks[j] = i
                                    THEN df.rows[CHOOSE j \in 1..Len(ks) : ks[j] = i].val
                                    ELSE @[i]]],
                  Len(df.rows))

\* SqlBuilder::update: one UPDATE statement per row of df, in row order, each
\* keyed by its row's index value
RenderUpdate(df) == [i \in 1..Len(df.rows) |-> [key |-> df.rows[i].id, val |-> df.rows[i].val]]

\* one row-keyed UPDATE: the table after it and its rows_affected
DbUpdateOne(tb, st) ==
    IF tb.rows[st.key] = NoRow THEN [tb |-> tb, n |-> 0]
    ELSE [tb |-> [tb EXCEPT !.rows[st.key] = st.val], n |-> 1]

\* execute_many: the statements run one after the other on one connection;
\* ns is the rows_affected of each, the ExecutionResult is their sum
RECURSIVE ExecuteMany(_, _, _)
ExecuteMany(tb, stmts, ns) ==
    IF stmts = <<>> THEN [tb |-> tb, ns |-> ns]
    ELSE LET one == DbUpdateOne(tb, Head(stmts))
         IN  ExecuteMany(one.tb, Tail(stmts), Append(ns, one.n))

RECURSIVE SumSeq(_)
SumSeq(ns) == IF ns = <<>> THEN 0 ELSE Head(ns) + SumSeq(Tail(ns))

\* the batch of UPDATE statements stmts run on table t
DbUpdateMany(d, t, stmts) ==
    IF ~d[t].exists THEN [ok |-> FALSE, db |-> d, n |-> 0, ns |-> [i \in 1..Len(stmts) |-> 0]]
    ELSE LET run == ExecuteMany(d[t], stmts, <<>>)
         IN  [ok |-> TRUE, db |-> [d EXCEPT ![t] = run.tb], n |-> SumSeq(run.ns), ns |-> run.ns]

\* DELETE of the rows the filter selects
DbDelete(d, t, sel) ==
    IF ~d[t].exists THEN Failed(d)
    ELSE Done([d EXCEPT ![t].rows = [i \in IDs |-> IF i \in sel THEN NoRow ELSE @[i]]],
              Cardinality(sel \cap TableIds(d[t])))

\* ------------------------------------------------------------------ state
VARIABLES
    pool,       \* SqlExecutor.pool: "None" or "Some" (the handle)
    live,       \* provider side: the handle's connection is open
    openConns,  \* connections opened for this engine and not yet closed
    db,         \* committed database: table name -> table
    txn,        \* the LoaderTransaction of the running save, if any
    pc,         \* position in the running call ("idle": none running)
    call,       \* the running call and its arguments
    pre,        \* engine and database state when the call started
    log,        \* round trips the running call has issued, in order
    result,     \* what the call returned
    out,        \* payload of a successful query call
    acc,        \* create_and_insert: affected_rows
    perr,       \* create_and_insert: the insert error being propagated
    part        \* save(Upsert): df_to_insert / df_to_update and r1

vars == <<pool, live, openConns, db, txn, pc, call, pre, log, result, out, acc, perr, part>>

\* the expression builder (sql_adt.rs): a value of one of the builder's state
\* types, and the Expressions values built so far
VARIABLES
    bstate,     \* type of the builder value: "none", "Simple", "Nest", "Conjunction",
                \* or "finished" once finish() consumed it
    stack,      \* its stack: Vec<Expression>
    made,       \* the Expressions at hand: Expressions::default() or the last one built
    seed,       \* what the builder was started from
    finFrom,    \* the state type finish() was called on
    given       \* the nodes handed to the builder so far, in call order

bvars == <<bstate, stack, made, seed, finFrom, given>>

\* the row/column transposer (row.rs): a DataFrame, the last call made on it,
\* and the row iterator it was turned into
VARIABLES
    frame,      \* the DataFrame at hand (not ok: none built, or moved away)
    rcall,      \* the last call and its arguments
    rpre,       \* the DataFrame when that call was made
    rres,       \* what that call returned
    iter,       \* the DataFrameIntoIterator, once into_iter() consumed the table
    yielded     \* what the iterator's next() returned, call by call

rvars == <<frame, rcall, rpre, rres, iter, yielded>>

\* SqlExecutor as its constructor leaves it (executor.rs): the other fields
\* beside pool
VARIABLES
    driver,     \* SqlExecutor.driver: the dialect
    conn_str,   \* SqlExecutor.conn_str, as a sequence of pieces of text
    from_arg    \* the string the constructor was given

cvars == <<driver, conn_str, from_arg>>

\* the state of the components an engine step leaves alone
nonEngine == <<bvars, rvars, cvars>>
\* the state of the components a builder step leaves alone
nonBuilder == <<vars, rvars, cvars>>
\* the state of the components a transposer step leaves alone
nonRow == <<vars, bvars, cvars>>

NoCall == [op |-> "none", table |-> "-", data |-> EmptyDF, strategy |-> "-",
           sel |-> {}, cols |-> <<>>]
NoTxn == [st |-> "none", work |-> [t \in Tables |-> AbsentTable]]
NoPart == [split |-> FALSE, ids |-> {}, ins |-> EmptyDF, upd |-> EmptyDF, r1 |-> 0]
NoOut == [pk |-> "", ids |-> <<>>, schema |-> <<>>, query |-> <<>>, fetched |-> <<>>,
          index |-> <<>>, names |-> <<>>, data |-> <<>>]
Snapshot == [pool |-> pool, live |-> live, openConns |-> openConns, db |-> db]

\* conn_e_err!(self.pool) / conn_n_err!(self.pool): the early-return guards
ConnEErr(p) == p # "None"
ConnNErr(p) == p = "None"

\* a round trip's transport outcome: on a closed handle it always fails
NetOutcomes == IF live THEN BOOLEAN ELSE {FALSE}

\* one round trip: its kind, whether it succeeded, and the rows_affected it
\* reported
Event(name, ok, n) == [rt |-> name, ok |-> ok, n |-> n, stmts |-> <<>>]

\* a round trip that submits a batch: the statements of the batch in the order
\* submitted, each with the rows_affected it reported
BatchEvent(name, ok, n, stmts, ns) ==
    [rt |-> name, ok |-> ok, n |-> n,
     stmts |-> [i \in 1..Len(stmts) |->
                  [key |-> stmts[i].key, val |-> stmts[i].val, n |-> IF ok THEN ns[i] ELSE 0]]]

\* rows_affected a backend reports for a CREATE TABLE
DdlAffected == {0, 1}

\* a transaction value that goes out of scope uncommitted is discarded
DropTxn(x) == IF x.st = "open" THEN [st |-> "dropped", work |-> x.work] ELSE x

InitDbs == [Tables -> {AbsentTable, EmptyTable(TRUE), EmptyTable(FALSE)}]

EngineInit ==
    /\ pool = "None"
    /\ live = FALSE
    /\ openConns = 0
    /\ db \in InitDbs
    /\ txn = NoTxn
    /\ pc = "idle"
    /\ call = NoCall
    /\ pre = [pool |-> "None", live |-> FALSE, openConns |-> 0, db |-> db]
    /\ log = <<>>
    /\ result = Pending
    /\ out = NoOut
    /\ acc = 0
    /\ perr = "none"
    /\ part = NoPart


\* ------------------------------------------- row/column transposer (row.rs)
\* a DataFrame built by the transposer: index column, column names and the
\* columns (column-major), or the error
Frame(index, names, data) ==
    [ok |-> TRUE, err |-> "none", index |-> index, names |-> names, data |-> data]
NoFrame(e) == [ok |-> FALSE, err |-> e, index |-> <<>>, names |-> <<>>, data |-> <<>>]

\* format!("Column_{:?}", j)
PlaceholderNames == <<"Column_0", "Column_1", "Column_2", "Column_3">>
ColumnPlaceholder(j) == PlaceholderNames[j + 1]

\* the dense sequential index of a table of height m
DefaultIndex(m) == [i \in 1..m |-> i - 1]

\* Vec::remove(k), k counted from 0
RemoveAt(v, k) == [j \in 1..(Len(v) - 1) |-> IF j <= k THEN v[j] ELSE v[j + 1]]

\* Value::Null, the identity of a Row made by Row::from_values
Null == 0 - 1

\* an index that ignores the rows' identity values
IndexAlwaysDefault(index) == DefaultIndex(Len(index))

\* an index that keeps the identity values as they are
IndexAsGiven(index) == index

\* Series::from_values_default_name(index, true) on the rows' identity
\* values: the values in order, or the dense sequential index when the rows
\* carry none
IndexFromValues(index) ==
    IF \A i \in 1..Len(index) : index[i] = Null THEN DefaultIndex(Len(index))
    ELSE index

\* the call does not return: `r.data[j]` past the end of a row panics
Abort == NoFrame("abort")

\* a width taken from the longest of the rows
RowsWidthLongest(rows) ==
    CHOOSE n \in {Len(rows[i].data) : i \in 1..Len(rows)} :
        \A i \in 1..Len(rows) : Len(rows[i].data) <= n

\* let n = rows.first().unwrap().len()
RowsWidth(rows) == Len(rows[1].data)

\* from_rows without its check for an empty list
FromRowsUnchecked(rows) ==
    LET m == Len(rows)
        n == IF m = 0 THEN 0 ELSE Len(rows[1].data)
    IN  Frame(IndexFromValues([i \in 1..m |-> rows[i].index]),
              [j \in 1..n |-> ColumnPlaceholder(j - 1)],
              [j \in 1..n |-> [i \in 1..m |-> rows[i].data[j]]])

\* DataFrame::from_rows: column j takes `r.data[j]` out of every row, for j
\* up to the width; a row with fewer values aborts the call, the values of a
\* row beyond the width are never looked at
FromRows(rows) ==
    IF Len(rows) = 0 THEN NoFrame("EmptyInput")
    ELSE LET m == Len(rows)
             n == RowsWidth(rows)
         IN  IF \E i \in 1..m : Len(rows[i].data) < n THEN Abort
             ELSE Frame(IndexFromValues([i \in 1..m |-> rows[i].index]),
                        [j \in 1..n |-> ColumnPlaceholder(j - 1)],
                        [j \in 1..n |-> [i \in 1..m |-> rows[i].data[j]]])

NoIndexCol == [some |-> FALSE, i |-> 0]
IndexCol(i) == [some |-> TRUE, i |-> i]

\* an index column that is never taken
IndexColIgnored(index_col, n) == FALSE

\* Some(index_col) with index_col >= length is ignored; otherwise the
\* column at index_col becomes the index
IndexColTaken(index_col, n) == index_col.some /\ ~(index_col.i >= n)

\* DataFrame::from_row_values_iter / from_row_values (rows of one width)
FromRowValues(values, index_col) ==
    IF Len(values) = 0 THEN NoFrame("EmptyInput")
    ELSE LET m == Len(values)
             n == Len(values[1])
             transposed == [j \in 1..n |-> [i \in 1..m |-> values[i][j]]]
             taken == IndexColTaken(index_col, n)
             rest == IF taken THEN RemoveAt(transposed, index_col.i) ELSE transposed
         IN  Frame(IF taken THEN transposed[index_col.i + 1] ELSE DefaultIndex(m),
                   [j \in 1..Len(rest) |-> ColumnPlaceholder(j - 1)],
                   rest)

\* DataFrame::set_column_names
SetColumnNames(f, names) ==
    IF Len(names) # Len(f.data) THEN NoFrame("core@set_column_names")
    ELSE [f EXCEPT !.names = names]


\* DataFrame::height / width
Height(f) == IF Len(f.data) = 0 THEN 0 ELSE Len(f.data[1])
Width(f) == Len(f.data)

\* slice of a sequence: length values from offset on, cut at its end
SliceSeq(v, offset, length) ==
    SubSeq(v, offset + 1, IF offset + length < Len(v) THEN offset + length ELSE Len(v))

\* DataFrame::slice(offset, length)
Slice(f, offset, length) ==
    Frame(SliceSeq(f.index, offset, length), f.names,
          [j \in 1..Len(f.data) |-> SliceSeq(f.data[j], offset, length)])

\* the type of a value of a table: text values are the integers from TextBase
\* on, the others are I64
TextBase == 100
Text(t) == TextBase + t
DType(v) == IF v = Null THEN "Null" ELSE IF v >= TextBase THEN "Utf8" ELSE "I64"
\* the type of a column, read off its first value; an empty slice has no
\* value to read it from and agrees with every type
ColumnType(col) == IF Len(col) = 0 THEN "none" ELSE DType(col[1])
SameTypes(f, g) ==
    \A j \in 1..Len(f.data) :
        \/ ColumnType(f.data[j]) = "none"
        \/ ColumnType(g.data[j]) = "none"
        \/ ColumnType(f.data[j]) = ColumnType(g.data[j])

\* DataFrame::vconcat_mut: g's rows after f's; the columns of both must agree
\* in number, names and types
VConcat(f, g) ==
    IF Len(f.data) # Len(g.data) \/ f.names # g.names \/ ~SameTypes(f, g)
    THEN NoFrame("core@vconcat")
    ELSE Frame(f.index \o g.index, f.names,
               [j \in 1..Len(f.data) |-> f.data[j] \o g.data[j]])

\* Index::find_index: the first position whose index value equals the identity
NoPosition == [some |-> FALSE, i |-> 0]
\* a lookup that finds nothing
FindIndexNothing(f, identity) == NoPosition
FindIndex(f, identity) ==
    IF \E p \in 1..Len(f.index) : f.index[p] = identity
    THEN [some |-> TRUE,
          i |-> (CHOOSE p \in 1..Len(f.index) :
                    /\ f.index[p] = identity
                    /\ \A q \in 1..(p - 1) : f.index[q] # identity) - 1]
    ELSE NoPosition

\* Row
Row(index, data) == [index |-> index, data |-> data]
NoRowValue == Row(Null, <<>>)

\* CoreResult of a call on a table: Ok, with the Row a read returns, or the
\* error and its arguments
RowOk(row) == [ok |-> TRUE, err |-> "none", a |-> 0, b |-> 0, row |-> row]
RowErr(e, a, b) == [ok |-> FALSE, err |-> e, a |-> a, b |-> b, row |-> NoRowValue]
\* oob_err(idx, len) / inf_err(index)
OobErr(idx, len) == RowErr("OutOfBounds", idx, len)
InfErr(index) == RowErr("IndexNotFound", index, 0)

\* a bounds check that lets idx = len through
OutOfRangeStrict(idx, len) == idx > len

\* if idx >= len { return Err(oob_err(idx, len)) }
OutOfRange(idx, len) == idx >= len

\* DataFrame::get_row_by_idx
GetRowByIdx(f, idx) ==
    LET len == Height(f)
    IN  IF OutOfRange(idx, len) THEN OobErr(idx, len)
        ELSE IF idx + 1 > Len(f.index) \/ \E j \in 1..Len(f.data) : idx + 1 > Len(f.data[j])
             THEN RowErr("core@get", idx, len)
        ELSE RowOk(Row(f.index[idx + 1], [j \in 1..Len(f.data) |-> f.data[j][idx + 1]]))

\* DataFrame::get_row
GetRow(f, index) ==
    LET p == FindIndex(f, index)
    IN  IF p.some THEN GetRowByIdx(f, p.i) ELSE InfErr(index)

\* DataFrame::append
AppendRow(f, row) ==
    LET d == FromRows(<<row>>)
        named == IF d.ok THEN SetColumnNames(d, f.names) ELSE d
    IN  IF named.ok THEN VConcat(f, named) ELSE named

\* the slices of insert_row_by_idx taken the wrong way round
SplitSwapped(f, idx) == [d1 |-> Slice(f, idx, Height(f)), d2 |-> Slice(f, 0, idx)]

\* let d1 = self.slice(0, idx); let d2 = self.slice(idx as i64, len);
Split(f, idx) == [d1 |-> Slice(f, 0, idx), d2 |-> Slice(f, idx, Height(f))]

\* self assigned the first slice before the concatenations are known to
\* have succeeded
KeptSlice(f, d1) == d1

\* what self holds when insert_row_by_idx / insert_rows_by_idx return an
\* error: `*self = d1` comes after every `?`, so self is untouched
Kept(f, d1) == f

\* DataFrame::insert_row_by_idx: the table it assigns to self, or the error
InsertRowByIdx(f, idx, row) ==
    LET s == Split(f, idx)
        a == AppendRow(s.d1, row)
    IN  IF a.ok THEN VConcat(a, s.d2) ELSE a

\* a lookup that resolves the position after the identity's
InsertPositionAfter(p) == p + 1

\* Some(idx) => self.insert_row_by_idx(idx, row)
InsertPosition(p) == p

\* DataFrame::insert_row
InsertRow(f, index, row) ==
    LET p == FindIndex(f, index)
    IN  IF p.some THEN InsertRowByIdx(f, InsertPosition(p.i), row)
        ELSE NoFrame("IndexNotFound")

\* DataFrame::insert_rows_by_idx
InsertRowsByIdx(f, idx, rows) ==
    LET s == Split(f, idx)
        di == FromRows(rows)
        named == IF di.ok THEN SetColumnNames(di, f.names) ELSE di
        c == IF named.ok THEN VConcat(s.d1, named) ELSE named
    IN  IF c.ok THEN VConcat(c, s.d2) ELSE c

\* DataFrame::insert_rows
InsertRows(f, index, rows) ==
    LET p == FindIndex(f, index)
    IN  IF p.some THEN InsertRowsByIdx(f, InsertPosition(p.i), rows)
        ELSE NoFrame("IndexNotFound")

\* self after a failed insert at position idx / at the position of index
LeftByIdx(f, idx) == Kept(f, Split(f, idx).d1)
LeftByIndex(f, index) ==
    LET p == FindIndex(f, index)
    IN  IF p.some THEN LeftByIdx(f, InsertPosition(p.i)) ELSE f

\* a stepper that allows one step more
StepperNewLong(len) == [len |-> len + 1, step |-> 0]

\* util::Stepper: new(len), exhausted(), forward()
StepperNew(len) == [len |-> len, step |-> 0]
StepperExhausted(st) == st.step >= st.len
StepperForward(st) == [st EXCEPT !.step = st.step + 1]

\* DataFrameIntoIterator: the values left to each Series iterator, and the
\* stepper
NoIterator == [on |-> FALSE, index |-> <<>>, data |-> <<>>, stepper |-> StepperNew(0)]
IntoIter(f) ==
    [on |-> TRUE, index |-> f.index, data |-> f.data, stepper |-> StepperNew(Height(f))]

\* Option<Row>
None == [some |-> FALSE, panic |-> FALSE, row |-> NoRowValue]
Some(row) == [some |-> TRUE, panic |-> FALSE, row |-> row]
\* unwrap() of an exhausted Series iterator
Panicked == [some |-> FALSE, panic |-> TRUE, row |-> NoRowValue]

\* a Series iterator has a value left
HasNext(v) == Len(v) > 0

\* Iterator::next of DataFrameIntoIterator: what it returns
IterNextValue(it) ==
    IF StepperExhausted(it.stepper) THEN None
    ELSE IF ~HasNext(it.index) \/ \E j \in 1..Len(it.data) : ~HasNext(it.data[j])
         THEN Panicked
    ELSE Some(Row(Head(it.index), [j \in 1..Len(it.data) |-> Head(it.data[j])]))

\* Iterator::next of DataFrameIntoIterator: the iterator it leaves
IterNextState(it) ==
    IF StepperExhausted(it.stepper) THEN it
    ELSE [it EXCEPT !.index = IF HasNext(it.index) THEN Tail(it.index) ELSE it.index,
                    !.data = [j \in 1..Len(it.data) |->
                                 IF HasNext(it.data[j]) THEN Tail(it.data[j]) ELSE it.data[j]],
                    !.stepper = StepperForward(it.stepper)]

\* ------------------------------------------------- transposer: the inputs
\* tallest table built
MaxHeight == MaxRows + 1
Widths == 1..MaxWidth
\* the data of a sample row: the value of column j of the row tagged t
Cell(t, j) == 10 * t + j
RowData(t, w) == [j \in 1..w |-> Cell(t, j)]

\* sample rows of width w that carry an identity (Row::new) or none
\* (Row::from_values)
RowsOf(w, identified) ==
    {Row(IF identified THEN t ELSE Null, RowData(t, w)) : t \in IDs}
\* lists of rows of one width, all with an identity or all without
RowLists(w) == UNION {SeqsUpTo(RowsOf(w, b), MaxRows) : b \in BOOLEAN}
\* lists of value rows of one width
ValueLists(w) == SeqsUpTo({RowData(t, w) : t \in {1, 1 + 1}}, MaxRows)
IndexCols == {NoIndexCol} \cup {IndexCol(i) : i \in 0..MaxWidth}
\* the rows and row lists handed to an append or insert on a table of width
\* w: rows of its width with an identity and without, and a row of another
\* width
OtherWidth(w) == IF w = 1 THEN 1 + 1 ELSE 1
Identified(t, w) == Row(t, RowData(t, w))
Unidentified(t, w) == Row(Null, RowData(t, w))
InsertRowsOf(w) ==
    {Identified(1, w), Unidentified(1 + 1, w), Identified(1, OtherWidth(w))}
\* a row of text values, handed to a table that holds rows (of I64 values)
TextRow(w) == Row(1, [j \in 1..w |-> Text(j)])
TextRowsFor(f) == IF Height(f) = 0 THEN {} ELSE {TextRow(Width(f))}
TextListsFor(f) == {<<r>> : r \in TextRowsFor(f)}
InsertListsOf(w) ==
    {<<>>,
     <<Identified(1, w)>>,
     <<Identified(1 + 1, w), Identified(1, w)>>,
     <<Unidentified(1, w), Unidentified(1 + 1, w)>>,
     <<Identified(1, OtherWidth(w))>>}
\* lists of rows that differ in length: a row of width w, then one of another
\* width (longer when w = 1, shorter otherwise)
MixedLists(w) == {<<Identified(1, w), Identified(1 + 1, OtherWidth(w))>>}
\* identity values looked up
Identities == 0..(MaxId + 1)

NoRowCall == [op |-> "none", rows |-> <<>>, values |-> <<>>, index_col |-> NoIndexCol,
              idx |-> 0, index |-> Null]

RowInit ==
    /\ frame = NoFrame("none")
    /\ rcall = NoRowCall
    /\ rpre = NoFrame("none")
    /\ rres = RowErr("none", 0, 0)
    /\ iter = NoIterator
    /\ yielded = <<>>

\* ------------------------------------------- SqlExecutor::from_str
\* the pieces of text a connection string is made of, and the strings
Pieces == {"mysql", "postgres", "sqlite", "x", ":", "/"}
ConnStrings == SeqsUpTo(Pieces, MaxLen)

\* a split at the slash
SeparatorSlash == "/"

\* conn_str.split(":")
Separator == ":"

\* s.next() of conn_str.split(":"): the text before the first separator, the
\* whole string when it has none
RECURSIVE FirstPiece(_)
FirstPiece(str) ==
    IF str = <<>> \/ Head(str) = Separator THEN <<>>
    ELSE <<Head(str)>> \o FirstPiece(Tail(str))

\* impl From<&str> for SqlBuilder
SqlBuilderFrom(v) ==
    CASE v = <<"mysql">> -> "Mysql"
      [] v = <<"postgres">> -> "Postgres"
      [] OTHER -> "Sqlite"

\* SqlExecutor::from_str("")
ConstructedInit ==
    /\ driver = SqlBuilderFrom(FirstPiece(<<>>))
    /\ conn_str = <<>>
    /\ from_arg = <<>>

\* SqlExecutor::from_str(conn_str)
FromStr ==
    /\ pc = "idle"
    /\ \E str \in ConnStrings :
        /\ driver' = SqlBuilderFrom(FirstPiece(str))
        /\ conn_str' = str
        /\ from_arg' = str
    /\ pool' = "None"
    /\ UNCHANGED <<live, openConns, db, txn, pc, call, pre, log, result, out, acc, perr, part>>
    /\ UNCHANGED <<bvars, rvars>>

ConstructNext ==
    \/ FromStr

\* ----------------------------------------- expression builder (sql_adt.rs)
Conjunctions == {"AND", "OR"}
\* sample of Condition values
Conditions == {"p", "q"}

\* Expression: Conjunction(c) / Simple(c) / Nest(v)
ConjunctionNode(c) == [kind |-> "Conjunction", v |-> c, sub |-> <<>>]
SimpleNode(c) == [kind |-> "Simple", v |-> c, sub |-> <<>>]
NestNode(e) == [kind |-> "Nest", v |-> "-", sub |-> e]

\* Expressions::default()
DefaultExpressions == <<>>

\* nesting depth of the groups of an Expressions
RECURSIVE Depth(_)
Depth(e) ==
    IF e = <<>> THEN 0
    ELSE LET h == IF Head(e).kind = "Nest" THEN 1 + Depth(Head(e).sub) ELSE 0
             t == Depth(Tail(e))
         IN  IF h > t THEN h ELSE t

\* the serialized form of a value: a string, a map or a sequence
Str(s) == [j |-> "string", s |-> s, items |-> <<>>]
Map(c) == [j |-> "map", s |-> c, items |-> <<>>]
Arr(items) == [j |-> "seq", s |-> "-", items |-> items]

\* #[derive(Serialize)] #[serde(untagged)] on Expression: a Conjunction is
\* the name of its unit variant, a Condition the map of its fields, a Nest
\* the sequence of its elements
RECURSIVE SerializeExpression(_)
SerializeExpression(x) ==
    CASE x.kind = "Conjunction" -> Str(x.v)
      [] x.kind = "Simple" -> Map(x.v)
      [] x.kind = "Nest" -> Arr([i \in 1..Len(x.sub) |-> SerializeExpression(x.sub[i])])

\* Expressions is a newtype over Vec<Expression>: it serializes as the vector
SerializeExpressions(e) == Arr([i \in 1..Len(e) |-> SerializeExpression(e[i])])

\* the serialized forms a derived Deserialize accepts for Equation, among
\* those an Expression serializes to: the name of its unit variant
EquationToken(t) == t.j = "string" /\ t.s = "Not"

\* the serialized forms a derived Deserialize accepts for Condition: the map
\* of its fields, or the sequence of its two fields in order
ConditionToken(t) ==
    \/ t.j = "map"
    \/ /\ t.j = "seq"
       /\ Len(t.items) = 2
       /\ t.items[1].j = "string"
       /\ EquationToken(t.items[2])

\* #[derive(Deserialize)] #[serde(untagged)] on Expression: the variants are
\* tried in declaration order and the first that accepts the input wins
RECURSIVE DeserializeExpression(_)
DeserializeExpression(t) ==
    IF t.j = "string" /\ t.s \in Conjunctions THEN ConjunctionNode(t.s)
    ELSE IF ConditionToken(t)
         THEN SimpleNode(IF t.j = "map" THEN t.s ELSE t.items[1].s)
    ELSE NestNode([i \in 1..Len(t.items) |-> DeserializeExpression(t.items[i])])

DeserializeExpressions(t) == [i \in 1..Len(t.items) |-> DeserializeExpression(t.items[i])]

NoSeed == [from |-> "none", e |-> <<>>]

BuilderInit ==
    /\ bstate = "none"
    /\ stack = <<>>
    /\ made = DefaultExpressions
    /\ seed = NoSeed
    /\ finFrom = "none"
    /\ given = <<>>

\* no builder value is held: none was made yet, or finish() consumed it
NoBuilder == bstate \in {"none", "finished"}

\* impl From<Condition> for SimpleState
SimpleStateFrom(c) == <<SimpleNode(c)>>

\* impl From<Expressions> for NestState
NestStateFrom(e) == e

\* Vec::push at the wrong end
PushFront(v, x) == <<x>> \o v

\* self.stack.push(Expression::from(state))
Push(v, x) == Append(v, x)

\* ExpressionsBuilder::from_condition
FromCondition ==
    /\ NoBuilder
    /\ \E c \in Conditions :
        /\ stack' = SimpleStateFrom(c)
        /\ seed' = [from |-> "condition", e |-> <<>>]
        /\ given' = <<SimpleNode(c)>>
    /\ bstate' = "Simple"
    /\ finFrom' = "none"
    /\ UNCHANGED made
    /\ UNCHANGED nonBuilder

\* ExpressionsBuilder::from_expressions, given the Expressions at hand
FromExpressions ==
    /\ NoBuilder
    /\ stack' = NestStateFrom(made)
    /\ seed' = [from |-> "expressions", e |-> made]
    /\ given' = <<NestNode(made)>>
    /\ bstate' = "Nest"
    /\ finFrom' = "none"
    /\ UNCHANGED made
    /\ UNCHANGED nonBuilder

\* ExpressionsBuilder::new().append(condition)
BuilderAppend ==
    /\ NoBuilder
    /\ \E c \in Conditions :
        /\ stack' = SimpleStateFrom(c)
        /\ seed' = [from |-> "append", e |-> <<>>]
        /\ given' = <<SimpleNode(c)>>
    /\ bstate' = "Simple"
    /\ finFrom' = "none"
    /\ UNCHANGED made
    /\ UNCHANGED nonBuilder

\* SimpleState / NestState: append(Conjunction) -> ConjunctionState
AppendConjunction ==
    /\ bstate \in {"Simple", "Nest"}
    /\ Len(stack) < MaxNodes
    /\ \E c \in Conjunctions :
        /\ stack' = Push(stack, ConjunctionNode(c))
        /\ given' = Append(given, ConjunctionNode(c))
    /\ bstate' = "Conjunction"
    /\ UNCHANGED <<made, seed, finFrom>>
    /\ UNCHANGED nonBuilder

\* ConjunctionState: append(Condition) -> SimpleState
AppendCondition ==
    /\ bstate = "Conjunction"
    /\ Len(stack) < MaxNodes
    /\ \E c \in Conditions :
        /\ stack' = Push(stack, SimpleNode(c))
        /\ given' = Append(given, SimpleNode(c))
    /\ bstate' = "Simple"
    /\ UNCHANGED <<made, seed, finFrom>>
    /\ UNCHANGED nonBuilder

\* ConjunctionState: append(Expressions) -> NestState
AppendExpressions ==
    /\ bstate = "Conjunction"
    /\ Len(stack) < MaxNodes
    /\ Depth(made) < MaxDepth
    /\ stack' = Push(stack, NestNode(made))
    /\ given' = Append(given, NestNode(made))
    /\ bstate' = "Nest"
    /\ UNCHANGED <<made, seed, finFrom>>
    /\ UNCHANGED nonBuilder

\* the state types that have a finish()
HasFinish == {"Simple", "Nest", "Conjunction"}

\* finish() on SimpleState / NestState
FinishLeaf ==
    /\ bstate \in HasFinish \cap {"Simple", "Nest"}
    /\ made' = stack
    /\ finFrom' = bstate
    /\ bstate' = "finished"
    /\ UNCHANGED <<stack, seed, given>>
    /\ UNCHANGED nonBuilder

\* finish() of the two impls of ExpressionTransit for ConjunctionState
FinishConjunction ==
    /\ bstate \in HasFinish \cap {"Conjunction"}
    /\ made' = stack
    /\ finFrom' = bstate
    /\ bstate' = "finished"
    /\ UNCHANGED <<stack, seed, given>>
    /\ UNCHANGED nonBuilder

BuilderNext ==
    \/ FromCondition
    \/ FromExpressions
    \/ BuilderAppend
    \/ AppendConjunction
    \/ AppendCondition
    \/ AppendExpressions
    \/ FinishLeaf
    \/ FinishConjunction

\* the engine, idle on an empty database, beside the builder
EngineIdle == EngineInit /\ db = [t \in Tables |-> AbsentTable]

BuilderStart == EngineIdle /\ BuilderInit /\ RowInit /\ ConstructedInit

BuilderSpec == BuilderStart /\ [][BuilderNext]_<<vars, bvars, rvars, cvars>>

\* ------------------------------------------------- transposer: the calls
\* a call on the table at hand: record it, the table it was made on and what
\* it returned
RowCall(c, r) ==
    /\ rcall' = c
    /\ rpre' = frame
    /\ rres' = r
    /\ UNCHANGED <<iter, yielded>>
    /\ UNCHANGED nonRow

\* a call that returns Ok(&mut self) once it has assigned the built table to
\* self, or returns the error and leaves self alone
MutateOr(c, built, left) ==
    /\ frame' = IF built.ok \/ built = Abort THEN built ELSE left
    /\ RowCall(c, IF built.ok THEN RowOk(NoRowValue) ELSE RowErr(built.err, 0, 0))
Mutate(c, built) == MutateOr(c, built, frame)

HasFrame == frame.ok /\ ~iter.on
\* a call aborted: nothing runs after it
Aborted == frame = Abort
\* the table at hand has columns to insert into
HasColumns == HasFrame /\ Width(frame) > 0
\* the table at hand is as a constructor built it
JustBuilt == rcall.op \in {"from_rows", "from_row_values"} /\ rres.ok

\* DataFrame::from_rows(rows)
DoFromRows ==
    /\ ~frame.ok /\ ~iter.on /\ ~Aborted
    /\ \E w \in Widths : \E rows \in RowLists(w) \cup MixedLists(w) :
        Mutate([NoRowCall EXCEPT !.op = "from_rows", !.rows = rows], FromRows(rows))

\* DataFrame::from_row_values(values, index_col)
DoFromRowValues ==
    /\ ~frame.ok /\ ~iter.on /\ ~Aborted
    /\ \E w \in Widths : \E values \in ValueLists(w) : \E ic \in IndexCols :
        Mutate([NoRowCall EXCEPT !.op = "from_row_values", !.values = values,
                                 !.index_col = ic],
               FromRowValues(values, ic))

\* DataFrame::slice(0, length) of the table just built, taken in its place
DoSlice ==
    /\ HasFrame
    /\ JustBuilt
    /\ \E length \in 0..Height(frame) :
        Mutate([NoRowCall EXCEPT !.op = "slice", !.idx = length],
               Slice(frame, 0, length))

\* DataFrame::get_row_by_idx(idx)
DoGetRowByIdx ==
    /\ HasFrame
    /\ \E idx \in 0..MaxHeight :
        /\ RowCall([NoRowCall EXCEPT !.op = "get_row_by_idx", !.idx = idx],
                   GetRowByIdx(frame, idx))
        /\ UNCHANGED frame

\* DataFrame::get_row(index)
DoGetRow ==
    /\ HasFrame
    /\ \E index \in Identities :
        /\ RowCall([NoRowCall EXCEPT !.op = "get_row", !.index = index],
                   GetRow(frame, index))
        /\ UNCHANGED frame

\* DataFrame::append(row)
DoAppend ==
    /\ HasColumns
    /\ Height(frame) < MaxHeight
    /\ \E row \in InsertRowsOf(Width(frame)) \cup TextRowsFor(frame) :
        Mutate([NoRowCall EXCEPT !.op = "append", !.rows = <<row>>], AppendRow(frame, row))

\* DataFrame::insert_row_by_idx(idx, row)
DoInsertRowByIdx ==
    /\ HasColumns
    /\ Height(frame) < MaxHeight
    /\ \E idx \in 0..(Height(frame) + 1) :
       \E row \in InsertRowsOf(Width(frame)) \cup TextRowsFor(frame) :
        MutateOr([NoRowCall EXCEPT !.op = "insert_row_by_idx", !.idx = idx, !.rows = <<row>>],
                 InsertRowByIdx(frame, idx, row), LeftByIdx(frame, idx))

\* DataFrame::insert_row(index, row)
DoInsertRow ==
    /\ HasColumns
    /\ Height(frame) < MaxHeight
    /\ \E index \in Identities :
       \E row \in InsertRowsOf(Width(frame)) \cup TextRowsFor(frame) :
        MutateOr([NoRowCall EXCEPT !.op = "insert_row", !.index = index, !.rows = <<row>>],
                 InsertRow(frame, index, row), LeftByIndex(frame, index))

\* DataFrame::insert_rows_by_idx(idx, rows)
DoInsertRowsByIdx ==
    /\ HasColumns
    /\ \E idx \in 0..(Height(frame) + 1) :
       \E rows \in InsertListsOf(Width(frame)) \cup TextListsFor(frame) :
        /\ Height(frame) + Len(rows) <= MaxHeight
        /\ MutateOr([NoRowCall EXCEPT !.op = "insert_rows_by_idx", !.idx = idx, !.rows = rows],
                    InsertRowsByIdx(frame, idx, rows), LeftByIdx(frame, idx))

\* DataFrame::insert_rows(index, rows)
DoInsertRows ==
    /\ HasColumns
    /\ \E index \in Identities :
       \E rows \in InsertListsOf(Width(frame)) \cup TextListsFor(frame) :
        /\ Height(frame) + Len(rows) <= MaxHeight
        /\ MutateOr([NoRowCall EXCEPT !.op = "insert_rows", !.index = index, !.rows = rows],
                    InsertRows(frame, index, rows), LeftByIndex(frame, index))

\* IntoIterator for DataFrame: into_iter(self) consumes the table
DoIntoIter ==
    /\ HasFrame
    /\ iter' = IntoIter(frame)
    /\ frame' = NoFrame("moved")
    /\ rcall' = [NoRowCall EXCEPT !.op = "into_iter"]
    /\ rpre' = frame
    /\ rres' = RowOk(NoRowValue)
    /\ yielded' = <<>>
    /\ UNCHANGED nonRow

\* Iterator::next, called up to twice after the iterator ran out
DoIterNext ==
    /\ iter.on
    /\ Len(yielded) <= iter.stepper.len + 1
    /\ yielded' = Append(yielded, IterNextValue(iter))
    /\ iter' = IterNextState(iter)
    /\ UNCHANGED <<frame, rcall, rpre, rres>>
    /\ UNCHANGED nonRow

RowNext ==
    \/ DoFromRows
    \/ DoFromRowValues
    \/ DoSlice
    \/ DoGetRowByIdx
    \/ DoGetRow
    \/ DoAppend
    \/ DoInsertRowByIdx
    \/ DoInsertRow
    \/ DoInsertRowsByIdx
    \/ DoInsertRows
    \/ DoIntoIter
    \/ DoIterNext

RowStart == EngineIdle /\ BuilderInit /\ RowInit /\ ConstructedInit

RowSpec == RowStart /\ [][RowNext]_<<vars, bvars, rvars, cvars>>

ConstructStart == EngineIdle /\ BuilderInit /\ RowInit /\ ConstructedInit

ConstructSpec == ConstructStart /\ [][ConstructNext]_<<vars, bvars, rvars, cvars>>

\* ------------------------------------------------------------ engine steps
Init == EngineInit /\ BuilderInit /\ RowInit /\ ConstructedInit

\* a call starts: record it and the state it starts from
Start(c) ==
    /\ pc = "idle"
    /\ call' = c
    /\ pre' = Snapshot

\* the call returns r from the step at position pc; the transaction, if still
\* open, goes out of scope
Return(r) ==
    /\ pc' = "done"
    /\ result' = r

\* connect without the early return
ConnectRejectsNever == FALSE

\* ---------------------------------------------------- connect / disconnect
ConnectRejects == ConnEErr(pool)

Connect ==
    /\ Start([NoCall EXCEPT !.op = "connect"])
    /\ IF ConnectRejects
       THEN /\ Return(Err("ConnectionExists"))
            /\ UNCHANGED <<pool, live, openConns, log>>
       ELSE \E net \in BOOLEAN :
            /\ log' = Append(log, Event("connect", net, 0))
            /\ IF net
               THEN /\ pool' = "Some"
                    /\ live' = TRUE
                    /\ openConns' = openConns + 1
                    /\ Return(Ok(0))
               ELSE /\ Return(Err("backend@connect"))
                    /\ UNCHANGED <<pool, live, openConns>>
    /\ UNCHANGED <<db, txn, out, acc, perr, part>>
    /\ UNCHANGED nonEngine

\* what disconnect leaves in self.pool
PoolAfterDisconnect == pool

Disconnect ==
    /\ Start([NoCall EXCEPT !.op = "disconnect"])
    /\ IF ConnNErr(pool)
       THEN /\ Return(Err("NoConnection"))
            /\ UNCHANGED <<pool, live, openConns, log>>
       ELSE /\ log' = Append(log, Event("disconnect", live, 0))
            /\ live' = FALSE
            /\ openConns' = IF live THEN openConns - 1 ELSE openConns
            /\ pool' = PoolAfterDisconnect
            /\ Return(Ok(0))
    /\ UNCHANGED <<db, txn, out, acc, perr, part>>
    /\ UNCHANGED nonEngine

\* ------------------------------------------------------------------- save
SaveEntry(s) ==
    CASE s = "FailIfExists" -> "fie_probe"
      [] s = "Replace" -> "rep_begin"
      [] s = "Append" -> "app_insert"
      [] s = "Upsert" -> "ups_ids"

Save ==
    \E t \in Tables, df \in DataFrames, s \in Strategies :
        /\ Start([NoCall EXCEPT !.op = "save", !.table = t, !.data = df, !.strategy = s])
        /\ IF ConnNErr(pool)
           THEN Return(Err("NoConnection"))
           ELSE /\ pc' = SaveEntry(s)
                /\ result' = Pending
        /\ UNCHANGED <<pool, live, openConns, db, txn, log, out, acc, perr, part>>
    /\ UNCHANGED nonEngine

\* FailIfExists going on whatever the probe found
FieAfterProbeIgnored(found) == "fie_begin"

\* FailIfExists creating the table without a transaction
FieAfterProbeNoBegin(found) == IF found THEN "TableExists" ELSE "ci_create"

\* FailIfExists: what the existence probe's answer leads to
FieAfterProbe(found) == IF found THEN "TableExists" ELSE "fie_begin"

FieProbe ==
    /\ pc = "fie_probe"
    /\ \E net \in NetOutcomes :
        /\ log' = Append(log, Event("probe", net, 0))
        /\ IF ~net
           THEN Return(Err("backend@probe"))
           ELSE LET nxt == FieAfterProbe(db[call.table].exists)
                IN  IF nxt = "TableExists"
                    THEN Return(Err("TableExists"))
                    ELSE pc' = nxt /\ UNCHANGED result
    /\ UNCHANGED <<pool, live, openConns, db, txn, call, pre, out, acc, perr, part>>
    /\ UNCHANGED nonEngine

\* begin_transaction, then on to position nxt
BeginTxn(nxt) ==
    \E net \in NetOutcomes :
        /\ log' = Append(log, Event("begin", net, 0))
        /\ IF net
           THEN /\ txn' = [st |-> "open", work |-> db]
                /\ pc' = nxt
                /\ UNCHANGED result
           ELSE /\ Return(Err("backend@begin"))
                /\ UNCHANGED txn

FieBegin ==
    /\ pc = "fie_begin"
    /\ BeginTxn("ci_create")
    /\ UNCHANGED <<pool, live, openConns, db, call, pre, out, acc, perr, part>>
    /\ UNCHANGED nonEngine

RepBegin ==
    /\ pc = "rep_begin"
    /\ BeginTxn("rep_probe")
    /\ UNCHANGED <<pool, live, openConns, db, call, pre, out, acc, perr, part>>
    /\ UNCHANGED nonEngine

\* Replace never dropping the table
RepAfterProbeNoDrop(found) == "ci_create"

\* Replace: the probe runs on the pool, after the transaction was opened
RepAfterProbe(found) == IF found THEN "rep_drop" ELSE "ci_create"

RepProbe ==
    /\ pc = "rep_probe"
    /\ \E net \in NetOutcomes :
        /\ log' = Append(log, Event("probe", net, 0))
        /\ IF ~net
           THEN /\ Return(Err("backend@probe"))
                /\ txn' = DropTxn(txn)
           ELSE /\ pc' = RepAfterProbe(db[call.table].exists)
                /\ UNCHANGED <<result, txn>>
    /\ UNCHANGED <<pool, live, openConns, db, call, pre, out, acc, perr, part>>
    /\ UNCHANGED nonEngine

\* Replace: txn.execute(&del_str).await?
RepDropFailed == "return"

RepDrop ==
    /\ pc = "rep_drop"
    /\ \E net \in NetOutcomes :
        LET stmt == DbDrop(txn.work, call.table)
            ok == net /\ stmt.ok
        IN  /\ log' = Append(log, Event("drop", ok, IF ok THEN stmt.n ELSE 0))
            /\ IF ok
               THEN /\ txn' = [txn EXCEPT !.work = stmt.db]
                    /\ pc' = "ci_create"
                    /\ UNCHANGED <<result, perr>>
               ELSE IF RepDropFailed = "return"
                    THEN /\ Return(Err("backend@drop"))
                         /\ txn' = DropTxn(txn)
                         /\ UNCHANGED perr
                    ELSE /\ pc' = "ci_rollback"
                         /\ perr' = "backend@drop"
                         /\ UNCHANGED <<result, txn>>
    /\ UNCHANGED <<pool, live, openConns, db, call, pre, out, acc, part>>
    /\ UNCHANGED nonEngine

\* a failed CREATE TABLE handled like a failed INSERT
CreateFailedRollsBack == "rollback"

\* create_and_insert: what follows a failed CREATE TABLE
CreateFailed == "return"

CiCreate ==
    /\ pc = "ci_create"
    /\ IF ~IndexOptionTryFrom(call.data.idxType).ok
       THEN /\ Return(Err("IndexType"))
            /\ txn' = DropTxn(txn)
            /\ UNCHANGED <<log, acc, perr>>
       ELSE \E net \in NetOutcomes, ra \in DdlAffected :
            LET stmt == DbCreate(txn.work, call.table)
                ok == net /\ stmt.ok
            IN  /\ log' = Append(log, Event("create", ok, IF ok THEN ra ELSE 0))
                /\ IF ok
                   THEN /\ acc' = acc + ra
                        /\ txn' = [txn EXCEPT !.work = stmt.db]
                        /\ pc' = "ci_insert"
                        /\ UNCHANGED <<result, perr>>
                   ELSE IF CreateFailed = "return"
                        THEN /\ Return(Err("backend@create"))
                             /\ txn' = DropTxn(txn)
                             /\ UNCHANGED <<acc, perr>>
                        ELSE /\ pc' = "ci_rollback"
                             /\ perr' = "backend@create"
                             /\ UNCHANGED <<result, txn, acc>>
    /\ UNCHANGED <<pool, live, openConns, db, call, pre, out, part>>
    /\ UNCHANGED nonEngine

\* a failed INSERT propagated without the rollback
InsertFailedReturns == "return"

\* a failed INSERT falling through to the commit
InsertFailedCommits == "commit"

\* create_and_insert: what follows a failed INSERT
InsertFailed == "rollback"

CiInsert ==
    /\ pc = "ci_insert"
    /\ \E rendered \in BOOLEAN :
        IF ~rendered
        THEN /\ Return(Err("render@insert"))
             /\ txn' = DropTxn(txn)
             /\ UNCHANGED <<log, acc, perr>>
        ELSE \E net \in NetOutcomes :
             LET stmt == DbInsert(txn.work, call.table, call.data)
                 ok == net /\ stmt.ok
             IN  /\ log' = Append(log, Event("insert", ok, IF ok THEN stmt.n ELSE 0))
                 /\ IF ok
                    THEN /\ acc' = acc + stmt.n
                         /\ txn' = [txn EXCEPT !.work = stmt.db]
                         /\ pc' = "ci_commit"
                         /\ UNCHANGED <<result, perr>>
                    ELSE IF InsertFailed = "rollback"
                         THEN /\ pc' = "ci_rollback"
                              /\ perr' = "backend@insert"
                              /\ UNCHANGED <<result, txn, acc>>
                         ELSE IF InsertFailed = "commit"
                         THEN /\ pc' = "ci_commit"
                              /\ UNCHANGED <<result, txn, acc, perr>>
                         ELSE /\ Return(Err("backend@insert"))
                              /\ txn' = DropTxn(txn)
                              /\ UNCHANGED <<acc, perr>>
    /\ UNCHANGED <<pool, live, openConns, db, call, pre, out, part>>
    /\ UNCHANGED nonEngine

\* txn.rollback().await?; return Err(e)
RollbackResult(net, e) == IF net THEN Err(e) ELSE Err("backend@rollback")

CiRollback ==
    /\ pc = "ci_rollback"
    /\ \E net \in NetOutcomes :
        /\ log' = Append(log, Event("rollback", net, 0))
        /\ txn' = [txn EXCEPT !.st = IF net THEN "rolledback" ELSE "failed"]
        /\ Return(RollbackResult(net, perr))
    /\ UNCHANGED <<pool, live, openConns, db, call, pre, out, acc, perr, part>>
    /\ UNCHANGED nonEngine

\* txn.commit().await?; Ok(affected_rows as usize)
CiCommit ==
    /\ pc = "ci_commit"
    /\ \E net \in NetOutcomes :
        /\ log' = Append(log, Event("commit", net, 0))
        /\ IF net
           THEN /\ db' = txn.work
                /\ txn' = [txn EXCEPT !.st = "committed"]
                /\ Return(Ok(acc))
           ELSE /\ txn' = [txn EXCEPT !.st = "failed"]
                /\ Return(Err("backend@commit"))
                /\ UNCHANGED db
    /\ UNCHANGED <<pool, live, openConns, call, pre, out, acc, perr, part>>
    /\ UNCHANGED nonEngine

\* ------------------------------------------- single-statement operations
\* A run of an operation that has one suspension point: the set of its
\* possible outcomes [r: result, db: database after, ev: round trips issued].
Outcome(r, d, ev) == [r |-> r, db |-> d, ev |-> ev]

\* insert(table, data): render one INSERT (keys included), execute it
InsertRun(d, t, df) ==
    IF ConnNErr(pool) THEN {Outcome(Err("NoConnection"), d, <<>>)}
    ELSE {Outcome(Err("render@insert"), d, <<>>)}
         \cup {LET stmt == DbInsert(d, t, df)
                   ok == net /\ stmt.ok
               IN  Outcome(IF ok THEN Ok(stmt.n) ELSE Err("backend@insert"),
                           IF ok THEN stmt.db ELSE d,
                           <<Event("insert", ok, IF ok THEN stmt.n ELSE 0)>>) : net \in NetOutcomes}

\* update submitting the statements last row first
UpdateStatementsReversed(df) ==
    [i \in 1..Len(df.rows) |-> RenderUpdate(df)[Len(df.rows) + 1 - i]]

\* update: the statements handed to execute_many
UpdateStatements(df) == RenderUpdate(df)

\* update(table, data): index option, render the row-keyed UPDATEs, run the batch
UpdateRun(d, t, df) ==
    IF ConnNErr(pool) THEN {Outcome(Err("NoConnection"), d, <<>>)}
    ELSE IF ~IndexOptionTryFrom(df.idxType).ok THEN {Outcome(Err("IndexType"), d, <<>>)}
    ELSE {Outcome(Err("render@update"), d, <<>>)}
         \cup {LET que == UpdateStatements(df)
                   stmt == DbUpdateMany(d, t, que)
                   ok == net /\ stmt.ok
               IN  Outcome(IF ok THEN Ok(stmt.n) ELSE Err("backend@update"),
                           IF ok THEN stmt.db ELSE d,
                           <<BatchEvent("update", ok, IF ok THEN stmt.n ELSE 0,
                                        que, stmt.ns)>>) : net \in NetOutcomes}

\* delete(spec): render the filtered DELETE, execute it
DeleteRun(d, t, sel) ==
    IF ConnNErr(pool) THEN {Outcome(Err("NoConnection"), d, <<>>)}
    ELSE {LET stmt == DbDelete(d, t, sel)
              ok == net /\ stmt.ok
          IN  Outcome(IF ok THEN Ok(stmt.n) ELSE Err("backend@delete"),
                      IF ok THEN stmt.db ELSE d,
                      <<Event("delete", ok, IF ok THEN stmt.n ELSE 0)>>) : net \in NetOutcomes}

Insert ==
    \E t \in Tables, df \in DataFrames :
        /\ Start([NoCall EXCEPT !.op = "insert", !.table = t, !.data = df])
        /\ \E o \in InsertRun(db, t, df) :
            /\ Return(o.r)
            /\ db' = o.db
            /\ log' = log \o o.ev
        /\ UNCHANGED <<pool, live, openConns, txn, out, acc, perr, part>>
    /\ UNCHANGED nonEngine

Update ==
    \E t \in Tables, df \in DataFrames :
        /\ Start([NoCall EXCEPT !.op = "update", !.table = t, !.data = df])
        /\ \E o \in UpdateRun(db, t, df) :
            /\ Return(o.r)
            /\ db' = o.db
            /\ log' = log \o o.ev
        /\ UNCHANGED <<pool, live, openConns, txn, out, acc, perr, part>>
    /\ UNCHANGED nonEngine

Delete ==
    \E t \in Tables, sel \in SUBSET IDs :
        /\ Start([NoCall EXCEPT !.op = "delete", !.table = t, !.sel = sel])
        /\ \E o \in DeleteRun(db, t, sel) :
            /\ Return(o.r)
            /\ db' = o.db
            /\ log' = log \o o.ev
        /\ UNCHANGED <<pool, live, openConns, txn, out, acc, perr, part>>
    /\ UNCHANGED nonEngine

\* ------------------------------------------------------ save: Append
\* Append rendering its INSERT with the index column as the key
AppendKeepsPrimaryKey == FALSE

\* driver.insert(table_name, data, true): ignore_index of the Append INSERT
AppendIgnoresPrimaryKey == TRUE

AppInsert ==
    /\ pc = "app_insert"
    /\ \E rendered \in BOOLEAN :
        IF ~rendered
        THEN /\ Return(Err("render@insert"))
             /\ UNCHANGED <<db, log>>
        ELSE \E net \in NetOutcomes :
             LET stmt == IF AppendIgnoresPrimaryKey
                         THEN DbInsertNoKey(db, call.table, call.data)
                         ELSE DbInsert(db, call.table, call.data)
                 ok == net /\ stmt.ok
             IN  /\ log' = Append(log, Event("insert", ok, IF ok THEN stmt.n ELSE 0))
                 /\ db' = IF ok THEN stmt.db ELSE db
                 /\ Return(IF ok THEN Ok(stmt.n) ELSE Err("backend@insert"))
    /\ UNCHANGED <<pool, live, openConns, txn, call, pre, out, acc, perr, part>>
    /\ UNCHANGED nonEngine

\* ------------------------------------------------------ save: Upsert
\* the rows of tb, in key order, whose key is among ids
RECURSIVE IdsFrom(_, _, _)
IdsFrom(tb, ids, i) ==
    IF i > MaxId THEN <<>>
    ELSE IF i \in ids /\ tb.rows[i] # NoRow THEN <<i>> \o IdsFrom(tb, ids, i + 1)
         ELSE IdsFrom(tb, ids, i + 1)

\* get_existing_ids(table, ids): [r: result, ids: the D1 returned, ev]
ExistingIdsRun(d, t, ids) ==
    IF ConnNErr(pool) THEN {[r |-> Err("NoConnection"), ids |-> <<>>, ev |-> <<>>]}
    ELSE {[r |-> Err("render@select_ids"), ids |-> <<>>, ev |-> <<>>]}
         \cup {LET ok == net /\ d[t].exists
               IN  [r |-> IF ok THEN Ok(0) ELSE Err("backend@select_ids"),
                    ids |-> IF ok THEN IdsFrom(d[t], ids, 1) ELSE <<>>,
                    ev |-> <<Event("select_ids", ok, 0)>>] : net \in NetOutcomes}

\* DataFrame::popup_rows: takes the rows whose index value is in ids out of df
PopupRows(df, ids) ==
    [rest |-> [df EXCEPT !.rows = FilterRows(df.rows, IDs \ ids)],
     popped |-> [df EXCEPT !.rows = FilterRows(df.rows, ids)]]

\* the two partitions taken for each other
UpsertSplitSwapped(df, ids) ==
    LET p == PopupRows(df, ids)
    IN  [ins |-> p.popped, upd |-> p.rest]

\* save(Upsert): which partition is inserted and which is updated
UpsertSplit(df, ids) ==
    LET p == PopupRows(df, ids)
    IN  [ins |-> p.rest, upd |-> p.popped]

UpsIds ==
    /\ pc = "ups_ids"
    /\ \E o \in ExistingIdsRun(db, call.table, IndexIds(call.data)), core \in BOOLEAN :
        /\ log' = log \o o.ev
        /\ IF ~o.r.ok
           THEN Return(o.r) /\ UNCHANGED part
           ELSE IF ~core
                THEN Return(Err("core@popup_rows")) /\ UNCHANGED part
                ELSE LET sp == UpsertSplit(call.data, Range(o.ids))
                     IN  /\ part' = [split |-> TRUE, ids |-> Range(o.ids),
                                     ins |-> sp.ins, upd |-> sp.upd, r1 |-> 0]
                         /\ pc' = "ups_insert"
                         /\ UNCHANGED result
    /\ UNCHANGED <<pool, live, openConns, db, txn, call, pre, out, acc, perr>>
    /\ UNCHANGED nonEngine

\* an insert error swallowed, the update step issued all the same
UpsInsertFailedGoesOn == "update"

\* let r1 = self.insert(&table_name, df_to_insert).await?
UpsInsertFailed == "return"

UpsInsert ==
    /\ pc = "ups_insert"
    /\ \E o \in InsertRun(db, call.table, part.ins) :
        /\ log' = log \o o.ev
        /\ db' = o.db
        /\ IF o.r.ok
           THEN /\ part' = [part EXCEPT !.r1 = o.r.val]
                /\ pc' = "ups_update"
                /\ UNCHANGED result
           ELSE IF UpsInsertFailed = "return"
                THEN Return(o.r) /\ UNCHANGED part
                ELSE pc' = "ups_update" /\ UNCHANGED <<result, part>>
    /\ UNCHANGED <<pool, live, openConns, txn, call, pre, out, acc, perr>>
    /\ UNCHANGED nonEngine

\* Ok((r1 + r2) as usize)
UpsertCount(r1, r2) == r1 + r2

UpsUpdate ==
    /\ pc = "ups_update"
    /\ \E o \in UpdateRun(db, call.table, part.upd) :
        /\ log' = log \o o.ev
        /\ db' = o.db
        /\ Return(IF o.r.ok THEN Ok(UpsertCount(part.r1, o.r.val)) ELSE o.r)
    /\ UNCHANGED <<pool, live, openConns, txn, call, pre, out, acc, perr, part>>
    /\ UNCHANGED nonEngine

\* ---------------------------------------------------------- introspection
\* name of the key column of a table that has a primary key
PkName == "id"

\* get_primary_key(table): [r, pk: the name found, ev]
PrimaryKeyRun(d, t) ==
    IF ConnNErr(pool) THEN {[r |-> Err("NoConnection"), pk |-> "", ev |-> <<>>]}
    ELSE {IF ~net THEN [r |-> Err("backend@primary_key"), pk |-> "",
                        ev |-> <<Event("primary_key", FALSE, 0)>>]
          ELSE IF d[t].exists /\ d[t].pk
               THEN [r |-> Ok(0), pk |-> PkName, ev |-> <<Event("primary_key", TRUE, 0)>>]
               ELSE [r |-> Err("primary key not found"), pk |-> "",
                     ev |-> <<Event("primary_key", TRUE, 0)>>] : net \in NetOutcomes}

GetPrimaryKey ==
    \E t \in Tables :
        /\ Start([NoCall EXCEPT !.op = "get_primary_key", !.table = t])
        /\ \E o \in PrimaryKeyRun(db, t) :
            /\ Return(o.r)
            /\ out' = [out EXCEPT !.pk = o.pk]
            /\ log' = log \o o.ev
        /\ UNCHANGED <<pool, live, openConns, db, txn, acc, perr, part>>
    /\ UNCHANGED nonEngine

GetExistingIds ==
    \E t \in Tables, ids \in SUBSET IDs :
        /\ Start([NoCall EXCEPT !.op = "get_existing_ids", !.table = t, !.sel = ids])
        /\ \E o \in ExistingIdsRun(db, t, ids) :
            /\ Return(o.r)
            /\ out' = [out EXCEPT !.ids = o.ids]
            /\ log' = log \o o.ev
        /\ UNCHANGED <<pool, live, openConns, db, txn, acc, perr, part>>
    /\ UNCHANGED nonEngine

\* type strings a backend reports for a column, upper-cased by the engine
TypeStrings == {"VARCHAR", "GEOMETRY"}

\* string_try_into_value_type(driver, type_str)
StringTryIntoValueType(ty) ==
    IF ty = "VARCHAR" THEN [ok |-> TRUE, dtype |-> "String"]
    ELSE [ok |-> FALSE, dtype |-> "none"]

\* get_table_schema: one TableSchema per (column, type, nullable) row; a type
\* string that does not convert becomes ValueType::Null
TableSchemaOf(name, ty, nullable) ==
    [name |-> name,
     dtype |-> IF StringTryIntoValueType(ty).ok THEN StringTryIntoValueType(ty).dtype
               ELSE "Null",
     is_nullable |-> (nullable = "YES")]

GetTableSchema ==
    \E t \in Tables :
        /\ Start([NoCall EXCEPT !.op = "get_table_schema", !.table = t])
        /\ IF ConnNErr(pool)
           THEN Return(Err("NoConnection")) /\ UNCHANGED <<out, log>>
           ELSE \E net \in NetOutcomes, ty \in TypeStrings :
                /\ log' = Append(log, Event("schema", net, 0))
                /\ IF ~net
                   THEN Return(Err("backend@schema")) /\ UNCHANGED out
                   ELSE LET raw == IF db[t].exists THEN <<<<"val", ty, "YES">>>> ELSE <<>>
                        IN  /\ Return(Ok(0))
                            /\ out' = [out EXCEPT
                                         !.fetched = raw,
                                         !.schema = [i \in 1..Len(raw) |->
                                            TableSchemaOf(raw[i][1], raw[i][2], raw[i][3])]]
        /\ UNCHANGED <<pool, live, openConns, db, txn, acc, perr, part>>
    /\ UNCHANGED nonEngine

\* ----------------------------------------------------------------- select
Simple(c) == [alias |-> FALSE, from |-> c, to |-> c]
Alias(f, t) == [alias |-> TRUE, from |-> f, to |-> t]
\* ColumnAlias::name / original_name
AliasName(c) == IF c.alias THEN c.to ELSE c.from
OriginalName(c) == c.from
\* Select::columns_name(alias)
ColumnsName(cols, alias) ==
    [i \in 1..Len(cols) |-> IF alias THEN AliasName(cols[i]) ELSE OriginalName(cols[i])]

SelectColumns ==
    {<<Simple("val")>>, <<Alias("val", "V")>>, <<Simple("val"), Alias("val", "V")>>,
     <<Alias("id", "K"), Simple("val")>>}

\* add_primary_key_to_select
AddPrimaryKeyToSelect(pk, cols) == <<Simple(pk)>> \o cols

\* the rows a query for cols returns from tb, in key order: each row is the
\* sequence of the requested columns' values
RECURSIVE QueryRows(_, _, _)
QueryRows(tb, cols, i) ==
    IF i > MaxId THEN <<>>
    ELSE IF tb.rows[i] = NoRow THEN QueryRows(tb, cols, i + 1)
         ELSE <<[j \in 1..Len(cols) |->
                   IF cols[j].from = PkName THEN i ELSE tb.rows[i]]>>
              \o QueryRows(tb, cols, i + 1)

\* fetch_all_to_rows: a fetched row as a Row, its first cell the identity
RawToRow(raw) == [index |-> Head(raw), data |-> Tail(raw)]

Select ==
    \E t \in Tables, cols \in SelectColumns :
        /\ Start([NoCall EXCEPT !.op = "select", !.table = t, !.cols = cols])
        /\ IF ConnNErr(pool)
           THEN Return(Err("NoConnection"))
           ELSE /\ pc' = "sel_pk"
                /\ result' = Pending
        /\ UNCHANGED <<pool, live, openConns, db, txn, log, out, acc, perr, part>>
    /\ UNCHANGED nonEngine

\* select: primary-key discovery; its error is not propagated
SelPk ==
    /\ pc = "sel_pk"
    /\ \E o \in PrimaryKeyRun(db, call.table) :
        /\ log' = log \o o.ev
        /\ out' = [out EXCEPT !.pk = IF o.r.ok THEN o.pk ELSE ""]
        /\ pc' = "sel_fetch"
    /\ UNCHANGED <<pool, live, openConns, db, txn, call, pre, result, acc, perr, part>>
    /\ UNCHANGED nonEngine

\* select: the column list of the query that is executed
SelectQuery(pk, cols) == IF pk # "" THEN AddPrimaryKeyToSelect(pk, cols) ELSE cols

\* select naming the columns by their names in the table
SelectNamesOriginal(cols) == ColumnsName(cols, FALSE)

\* select: df.set_column_names(&select.columns_name(true))
SelectNames(cols) == ColumnsName(cols, TRUE)

\* select: the DataFrame built from what the query returned
SelectFrame(pk, raw) ==
    IF pk # "" THEN FromRows([i \in 1..Len(raw) |-> RawToRow(raw[i])])
    ELSE FromRowValues(raw, NoIndexCol)

SelFetch ==
    /\ pc = "sel_fetch"
    /\ \E net \in NetOutcomes :
        LET query == SelectQuery(out.pk, call.cols)
            ok == net /\ db[call.table].exists
            raw == QueryRows(db[call.table], query, 1)
            built == SelectFrame(out.pk, raw)
            df == IF built.ok THEN SetColumnNames(built, SelectNames(call.cols)) ELSE built
        IN  /\ log' = Append(log, Event(IF out.pk # "" THEN "fetch_rows" ELSE "fetch", ok, 0))
            /\ IF ~ok
               THEN Return(Err("backend@select")) /\ out' = [out EXCEPT !.query = query]
               ELSE IF ~df.ok
                    THEN /\ Return(Err(df.err))
                         /\ out' = [out EXCEPT !.query = query, !.fetched = raw]
                    ELSE /\ Return(Ok(Len(raw)))
                         /\ out' = [out EXCEPT !.query = query, !.fetched = raw,
                                               !.index = df.index,
                                               !.names = df.names,
                                               !.data = df.data]
    /\ UNCHANGED <<pool, live, openConns, db, txn, call, pre, acc, perr, part>>
    /\ UNCHANGED nonEngine

\* the caller takes the result; the engine is ready for the next call
Finish ==
    /\ pc = "done"
    /\ pc' = "idle"
    /\ call' = NoCall
    /\ pre' = Snapshot
    /\ log' = <<>>
    /\ result' = Pending
    /\ out' = NoOut
    /\ acc' = 0
    /\ perr' = "none"
    /\ part' = NoPart
    /\ txn' = NoTxn
    /\ UNCHANGED <<pool, live, openConns, db>>
    /\ UNCHANGED nonEngine

Next ==
    \/ Connect
    \/ Disconnect
    \/ Save
    \/ FieProbe
    \/ FieBegin
    \/ RepBegin
    \/ RepProbe
    \/ RepDrop
    \/ CiCreate
    \/ CiInsert
    \/ CiRollback
    \/ CiCommit
    \/ AppInsert
    \/ UpsIds
    \/ UpsInsert
    \/ UpsUpdate
    \/ Insert
    \/ Update
    \/ Delete
    \/ GetPrimaryKey
    \/ GetExistingIds
    \/ GetTableSchema
    \/ Select
    \/ SelPk
    \/ SelFetch
    \/ Finish

Spec == Init /\ [][Next]_<<vars, bvars, rvars, cvars>>

\* ------------------------------------------------------------- properties
Names(l) == [i \in 1..Len(l) |-> l[i].rt]
IsPrefix(a, b) == Len(a) <= Len(b) /\ \A i \in 1..Len(a) : a[i] = b[i]
Has(name) == \E i \in 1..Len(log) : log[i].rt = name
Statements == {"drop", "create", "insert"}
\* the call started on an engine holding a handle (it passes conn_n_err)
Held == pre.pool = "Some"
\* the call started on an engine whose connection is open
Connected == pre.pool = "Some" /\ pre.live
InSave(s) == pc # "idle" /\ call.op = "save" /\ call.strategy = s
InTxnSave == pc # "idle" /\ call.op = "save" /\ call.strategy \in {"FailIfExists", "Replace"}
\* table tb holds exactly the rows of df
HoldsExactly(tb, df) ==
    /\ tb.exists
    /\ TableIds(tb) = IndexIds(df)
    /\ \A i \in 1..Len(df.rows) : tb.rows[df.rows[i].id] = df.rows[i].val

\* C1: connect() on an engine that holds a live connection fails with
\* ConnectionExists, issues no round trip (opens no second connection) and
\* leaves the handle, its liveness and the number of open connections as
\* they were, whatever calls came before.
C1_ConnectOnConnected ==
    (pc = "done" /\ call.op = "connect" /\ Connected) =>
        /\ result = Err("ConnectionExists")
        /\ log = <<>>
        /\ pool = pre.pool /\ live = pre.live
        /\ openConns = pre.openConns /\ openConns = 1
        /\ db = pre.db

C1_Witness ==
    /\ pc = "done" /\ call.op = "connect" /\ Connected
    /\ result = Err("ConnectionExists")
    /\ \E t \in Tables : TableIds(db[t]) # {}

\* C2 (as claimed): disconnect() fails with NoConnection whenever the engine
\* has no live connection, be it never connected or already disconnected.
C2_DisconnectWithoutConnection ==
    (pc = "done" /\ call.op = "disconnect" /\ ~Connected) =>
        result = Err("NoConnection")

GuardedOps == {"insert", "update", "save", "delete", "select", "get_primary_key",
               "get_table_schema", "get_existing_ids"}

\* C3 (as claimed): every operation other than connect/disconnect, called on
\* an engine with no live connection, returns NoConnection at once: no round
\* trip is issued and engine and database are left as they were.
C3_NoConnectionFirst ==
    (pc # "idle" /\ call.op \in GuardedOps /\ ~Connected) =>
        /\ pc = "done"
        /\ result = Err("NoConnection")
        /\ log = <<>>
        /\ db = pre.db /\ pool = pre.pool /\ live = pre.live
        /\ txn.st = "none"

\* C4 (as claimed): save(FailIfExists) on an existing table fails with
\* TableExists, the table unmodified, no transaction begun and no statement,
\* commit or rollback issued.
C4_FailIfExistsIsTableExists ==
    (pc = "done" /\ InSave("FailIfExists") /\ Connected /\ pre.db[call.table].exists) =>
        /\ result = Err("TableExists")
        /\ db = pre.db
        /\ \A i \in 1..Len(log) : log[i].rt = "probe"

\* C4 (amended): save(FailIfExists) on an existing table issues the existence
\* probe and nothing else, and fails: with TableExists when the probe
\* succeeded, with the probe's own error when the probe round trip failed.
\* The table is unmodified and no transaction is begun.
C4_FailIfExistsOnExisting ==
    (InSave("FailIfExists") /\ Held /\ pre.db[call.table].exists) =>
        /\ pc \in {"fie_probe", "done"}
        /\ db = pre.db
        /\ txn.st = "none"
        /\ pc = "done" =>
            /\ Names(log) = <<"probe">>
            /\ result = Err(IF log[1].ok THEN "TableExists" ELSE "backend@probe")

C4_Witness ==
    /\ pc = "done" /\ InSave("FailIfExists") /\ Connected
    /\ TableIds(pre.db[call.table]) # {}
    /\ call.data.rows # <<>>
    /\ result = Err("TableExists")

\* position of the failed INSERT that follows a successful CREATE TABLE
InsertFailedAfterCreate(j) ==
    /\ j \in 2..Len(log)
    /\ log[j].rt = "insert" /\ ~log[j].ok
    /\ \E i \in 1..(j - 1) : log[i].rt = "create" /\ log[i].ok

\* C5 (as claimed): when the INSERT fails after the CREATE TABLE succeeded,
\* rollback is invoked before the call returns, commit never is, and the
\* error returned is the insert error.
C5_InsertErrorReturned ==
    \A j \in 1..Len(log) :
        (pc = "done" /\ InTxnSave /\ InsertFailedAfterCreate(j)) =>
            /\ Len(log) = j + 1 /\ log[j + 1].rt = "rollback"
            /\ ~Has("commit")
            /\ result = Err("backend@insert")

\* C5 (amended): when the INSERT fails after the CREATE TABLE succeeded,
\* rollback is the next and last round trip, commit is never invoked, and the
\* call returns the insert error if the rollback succeeded and the rollback's
\* own error if the rollback failed.
C5_RollbackBeforeInsertError ==
    \A j \in 1..Len(log) :
        (InTxnSave /\ InsertFailedAfterCreate(j)) =>
            /\ ~Has("commit")
            /\ pc \in {"ci_rollback", "done"}
            /\ pc = "ci_rollback" => (Len(log) = j /\ perr = "backend@insert")
            /\ pc = "done" =>
                /\ Len(log) = j + 1 /\ log[j + 1].rt = "rollback"
                /\ result = Err(IF log[j + 1].ok THEN "backend@insert"
                                ELSE "backend@rollback")
                /\ db = pre.db

C5_Witness ==
    /\ pc = "done" /\ InSave("Replace") /\ pre.db[call.table].exists
    /\ \E j \in 1..Len(log) : InsertFailedAfterCreate(j)
    /\ log[Len(log)] = Event("rollback", TRUE, 0)
    /\ result = Err("backend@insert")

\* C6 (as claimed): in a transactional save, a statement that fails after an
\* earlier statement of the transaction succeeded is followed by an explicit
\* rollback before the error is returned.
C6_RollbackAfterFirstStatement ==
    \A j \in 1..Len(log) :
        (pc = "done" /\ InTxnSave
         /\ log[j].rt \in Statements /\ ~log[j].ok
         /\ \E i \in 1..(j - 1) : log[i].rt \in Statements /\ log[i].ok) =>
            \E k \in (j + 1)..Len(log) : log[k].rt = "rollback"

\* position of the transaction's first statement, which failed
FirstStatementFailed(j) ==
    /\ j \in 1..Len(log)
    /\ log[j].rt \in Statements /\ ~log[j].ok
    /\ \A i \in 1..(j - 1) : log[i].rt \notin Statements

\* C7: when the first statement of a save transaction fails (CREATE TABLE, or
\* DROP under Replace on an existing table), its error is what the call
\* returns, it is the call's last round trip, and neither rollback nor commit
\* is invoked.
C7_FirstStatementFailure ==
    \A j \in 1..Len(log) :
        (InTxnSave /\ FirstStatementFailed(j)) =>
            /\ pc = "done"
            /\ Len(log) = j
            /\ log[j].rt = (IF call.strategy = "Replace" /\ pre.db[call.table].exists
                            THEN "drop" ELSE "create")
            /\ result = Err(IF log[j].rt = "drop" THEN "backend@drop" ELSE "backend@create")
            /\ ~Has("rollback") /\ ~Has("commit")
            /\ db = pre.db

C7_Witness ==
    /\ pc = "done" /\ InTxnSave /\ Connected
    /\ FirstStatementFailed(Len(log))
    /\ \/ call.strategy = "Replace" /\ result = Err("backend@drop")
          /\ TableIds(pre.db[call.table]) # {}
       \/ call.strategy = "FailIfExists" /\ result = Err("backend@create")
          /\ call.data.rows # <<>>

FieOrder == <<"probe", "begin", "create", "insert", "commit">>
FieOrderRolledBack == <<"probe", "begin", "create", "insert", "rollback">>

\* C8: save(FailIfExists) on an absent table issues its round trips in the
\* order probe, begin, CREATE TABLE, INSERT, commit (a run cut short by a
\* failure issues a prefix of it, with rollback in the place of commit after a
\* failed INSERT); when it succeeds it issued all five, the table exists
\* holding exactly the rows of data, and the count returned is the CREATE's
\* rows_affected plus the INSERT's.
C8_FailIfExistsOrder ==
    (InSave("FailIfExists") /\ Held /\ ~pre.db[call.table].exists) =>
        /\ \/ IsPrefix(Names(log), FieOrder)
           \/ Names(log) = FieOrderRolledBack /\ ~log[4].ok
        /\ (pc = "done" /\ result.ok) =>
            /\ Names(log) = FieOrder
            /\ \A i \in 1..Len(log) : log[i].ok
            /\ HoldsExactly(db[call.table], call.data)
            /\ result.val = log[3].n + log[4].n
            /\ log[4].n = Len(call.data.rows)

C8_Witness ==
    /\ pc = "done" /\ InSave("FailIfExists") /\ ~pre.db[call.table].exists
    /\ result = Ok(3)
    /\ Names(log) = FieOrder
    /\ Len(call.data.rows) = 2

RepOrder(existed) ==
    IF existed THEN <<"begin", "probe", "drop", "create", "insert", "commit">>
    ELSE <<"begin", "probe", "create", "insert", "commit">>

\* C9: save(Replace) opens the transaction first, issues DROP if and only if
\* the table exists, then CREATE TABLE, INSERT and commit (a run cut short by
\* a failure issues a prefix, with rollback in the place of commit after a
\* failed INSERT); a successful Replace leaves the table holding exactly the
\* rows of data, whatever it held before.
C9_ReplaceOrder ==
    (InSave("Replace") /\ Held) =>
        LET order == RepOrder(pre.db[call.table].exists)
            n == Len(order)
        IN  /\ \/ IsPrefix(Names(log), order)
               \/ /\ Len(log) = n
                  /\ IsPrefix(SubSeq(Names(log), 1, n - 1), order)
                  /\ log[n].rt = "rollback" /\ ~log[n - 1].ok
            /\ Has("create") => (Has("drop") <=> pre.db[call.table].exists)
            /\ Has("drop") => txn.st # "none"
            /\ (pc = "done" /\ result.ok) =>
                /\ Names(log) = order
                /\ HoldsExactly(db[call.table], call.data)

C9_Witness ==
    /\ pc = "done" /\ InSave("Replace") /\ result.ok
    /\ TableIds(pre.db[call.table]) # {}
    /\ TableIds(pre.db[call.table]) # IndexIds(call.data)
    /\ Has("drop")
    /\ call.data.rows # <<>>

\* C10: save(Upsert) splits the input by the identities fetched for its
\* index values: a row is inserted iff its identity is not among them and
\* updated iff it is, the two parts are disjoint and together are all input
\* rows in their order; a successful call returns the INSERT's rows_affected
\* plus the UPDATE batch's, and leaves every input row in the table with the
\* input's value and every other row as it was.
C10_UpsertPartition ==
    (InSave("Upsert") /\ part.split) =>
        LET rows == call.data.rows
            ins == part.ins.rows
            upd == part.upd.rows
        IN  /\ part.ids = IndexIds(call.data) \cap TableIds(pre.db[call.table])
            /\ \A r \in Range(rows) :
                /\ r \in Range(ins) <=> r.id \notin part.ids
                /\ r \in Range(upd) <=> r.id \in part.ids
            /\ Range(ins) \cup Range(upd) = Range(rows)
            /\ Range(ins) \cap Range(upd) = {}
            /\ Len(ins) + Len(upd) = Len(rows)
            /\ (pc = "done" /\ result.ok) =>
                /\ Names(log) = <<"select_ids", "insert", "update">>
                /\ log[2].n = Len(ins) /\ log[3].n = Len(upd)
                /\ result.val = log[2].n + log[3].n
                /\ \A i \in IDs :
                    db[call.table].rows[i] =
                        IF i \in IndexIds(call.data)
                        THEN (CHOOSE r \in Range(rows) : r.id = i).val
                        ELSE pre.db[call.table].rows[i]

C10_Witness ==
    /\ pc = "done" /\ InSave("Upsert") /\ part.split
    /\ result = Ok(2)
    /\ Len(part.ins.rows) = 1 /\ Len(part.upd.rows) = 1
    /\ \E r \in Range(part.upd.rows) : pre.db[call.table].rows[r.id] # r.val

\* the values of table tb, in key order, at the keys in ks
RECURSIVE ValsAt(_, _, _)
ValsAt(tb, ks, i) ==
    IF i > MaxId THEN <<>>
    ELSE IF i \in ks THEN <<tb.rows[i]>> \o ValsAt(tb, ks, i + 1)
         ELSE ValsAt(tb, ks, i + 1)

\* C11: save(Append) issues at most one round trip, an INSERT (none only when
\* its rendering failed): no probe, no transaction, no CREATE or DROP.  A
\* successful call issued exactly one INSERT and returns its rows_affected;
\* the rows stored are the input's data values under keys the server chose,
\* whatever the input's index values are, and the rows the table held are
\* untouched.
C11_AppendOneInsert ==
    (InSave("Append") /\ Held) =>
        /\ Len(log) <= 1
        /\ \A i \in 1..Len(log) : log[i].rt = "insert"
        /\ txn.st = "none"
        /\ db[call.table].exists = pre.db[call.table].exists
        /\ db[call.table].pk = pre.db[call.table].pk
        /\ (pc = "done" /\ ~result.ok) =>
            /\ db = pre.db
            /\ (log = <<>>) <=> (result = Err("render@insert"))
        /\ (pc = "done" /\ result.ok) =>
            LET old == TableIds(pre.db[call.table])
                new == TableIds(db[call.table]) \ old
            IN  /\ Len(log) = 1 /\ log[1].ok
                /\ result.val = log[1].n
                /\ log[1].n = Len(call.data.rows)
                /\ old \subseteq TableIds(db[call.table])
                /\ \A i \in old : db[call.table].rows[i] = pre.db[call.table].rows[i]
                /\ Cardinality(new) = Len(call.data.rows)
                /\ ValsAt(db[call.table], new, 1) =
                       [i \in 1..Len(call.data.rows) |-> call.data.rows[i].val]

\* an Append of a row whose index value is the key of a stored row
C11_Witness ==
    /\ pc = "done" /\ InSave("Append") /\ result = Ok(1)
    /\ IndexIds(call.data) = TableIds(pre.db[call.table])
    /\ Cardinality(TableIds(db[call.table])) = 2

\* C12: update(table, data) with an index column type that has no index
\* mapping fails before any round trip.  Otherwise it submits at most one
\* batch (none only when rendering failed), holding one UPDATE per row of
\* data, in row order, each keyed by its row's index value and carrying its
\* row's value; a successful call returns the sum of the statements'
\* rows_affected, every stored row whose key is an index value of data holds
\* data's value and every other row is as it was.
C12_UpdateBatch ==
    (pc = "done" /\ call.op = "update" /\ Held) =>
        LET rows == call.data.rows
        IN  /\ ~IndexOptionTryFrom(call.data.idxType).ok =>
                (result = Err("IndexType") /\ log = <<>> /\ db = pre.db)
            /\ Len(log) <= 1
            /\ \A i \in 1..Len(log) :
                /\ log[i].rt = "update"
                /\ Len(log[i].stmts) = Len(rows)
                /\ \A k \in 1..Len(rows) :
                    /\ log[i].stmts[k].key = rows[k].id
                    /\ log[i].stmts[k].val = rows[k].val
            /\ ~result.ok => db = pre.db
            /\ result.ok =>
                /\ Len(log) = 1 /\ log[1].ok
                /\ result.val = SumSeq([k \in 1..Len(rows) |-> log[1].stmts[k].n])
                /\ \A k \in 1..Len(rows) :
                    log[1].stmts[k].n =
                        IF rows[k].id \in TableIds(pre.db[call.table]) THEN 1 ELSE 0
                /\ \A i \in IDs :
                    db[call.table].rows[i] =
                        IF i \in IndexIds(call.data) \cap TableIds(pre.db[call.table])
                        THEN (CHOOSE r \in Range(rows) : r.id = i).val
                        ELSE pre.db[call.table].rows[i]

\* a two-row update, rows not in key order, one of them stored
C12_Witness ==
    /\ pc = "done" /\ call.op = "update" /\ result = Ok(1)
    /\ Len(call.data.rows) = 2
    /\ call.data.rows[1].id > call.data.rows[2].id
    /\ \E r \in Range(call.data.rows) : pre.db[call.table].rows[r.id] \notin {NoRow, r.val}

\* the running select got its rows: the query round trip succeeded
Fetched == pc = "done" /\ call.op = "select" /\ log # <<>> /\ log[Len(log)].ok
                /\ log[Len(log)].rt \in {"fetch", "fetch_rows"}
\* the running select's primary-key discovery succeeded / failed
KeyDiscovered == call.op = "select" /\ pc \in {"sel_fetch", "done"} /\ out.pk # ""
KeyNotDiscovered == call.op = "select" /\ pc \in {"sel_fetch", "done"} /\ Held /\ out.pk = ""
\* column j of the rows the query returned
FetchedColumn(j) == [i \in 1..Len(out.fetched) |-> out.fetched[i][j]]

\* C13 (as claimed): a select whose primary key is discovered executes the
\* query with the key prepended as first column and returns a table whose
\* index is the key column's returned values in row order and whose data
\* columns are the requested columns' returned values.
C13_SelectWithPrimaryKey ==
    (Fetched /\ KeyDiscovered) =>
        /\ out.query = <<Simple(out.pk)>> \o call.cols
        /\ result.ok
        /\ out.index = FetchedColumn(1)
        /\ Len(out.data) = Len(call.cols)
        /\ \A j \in 1..Len(call.cols) : out.data[j] = FetchedColumn(j + 1)

\* C14 (as claimed): when primary-key discovery fails, its error is not
\* returned: the original Select is executed without an extra column and the
\* table returned for the N rows fetched has the index 0..N, for every N
\* including 0.
C14_SelectFallback ==
    KeyNotDiscovered =>
        /\ result.err \notin {"primary key not found", "backend@primary_key"}
        /\ pc = "done" => out.query = call.cols
        /\ Fetched =>
            /\ result = Ok(Len(out.fetched))
            /\ out.index = DefaultIndex(Len(out.fetched))
            /\ \A j \in 1..Len(call.cols) : out.data[j] = FetchedColumn(j)

\* C15: the table a select returns has, on the primary-key path and on the
\* fallback path, one data column per column of the original Select, named
\* in order by the alias target of an aliased column and by the plain name
\* otherwise; the prepended primary key supplies the index and is not a data
\* column.
C15_SelectColumnNames ==
    (pc = "done" /\ call.op = "select" /\ result.ok) =>
        /\ Len(out.names) = Len(call.cols) /\ Len(out.data) = Len(call.cols)
        /\ \A j \in 1..Len(call.cols) :
            out.names[j] = IF call.cols[j].alias THEN call.cols[j].to ELSE call.cols[j].from
        /\ \A j \in 1..Len(call.cols) :
            out.data[j] = FetchedColumn(IF out.pk # "" THEN j + 1 ELSE j)
        /\ out.pk # "" =>
            /\ Len(out.query) = Len(out.data) + 1
            /\ out.index = FetchedColumn(1)

\* a two-row select on the primary-key path, one column aliased
C15_Witness ==
    /\ pc = "done" /\ call.op = "select" /\ result = Ok(2)
    /\ out.pk = PkName
    /\ call.cols = <<Simple("val"), Alias("val", "V")>>
    /\ out.names = <<"val", "V">>
    /\ out.data[1][1] # out.data[1][2]

\* C16 (as claimed): apart from primary-key discovery inside select, the
\* failure of a round trip or of a conversion inside an operation is what the
\* operation returns: a call that returned Ok had no failed round trip and no
\* failed conversion, get_table_schema's type-string conversion and the
\* provider's disconnect included.
C16_NoErrorSwallowed ==
    (pc = "done" /\ result.ok) =>
        /\ \A i \in 1..Len(log) :
            ~log[i].ok => (call.op = "select" /\ log[i].rt = "primary_key")
        /\ call.op = "get_table_schema" =>
            \A i \in 1..Len(out.fetched) : StringTryIntoValueType(out.fetched[i][2]).ok

\* C17: the engine never has more than one connection opened and not yet
\* closed: the count is 0 or 1, it is 1 exactly while the handle's connection
\* is open, and an open connection is always the one self.pool holds.
C17_OneLiveConnection ==
    /\ openConns \in {0, 1}
    /\ (openConns = 1) <=> live
    /\ live => pool = "Some"
    /\ (pc = "done" /\ call.op = "connect" /\ pre.openConns = 1) =>
        (openConns = 1 /\ ~result.ok)

\* a connect attempted after connect and disconnect, with table rows stored
\* in between
C17_Witness ==
    /\ pc = "done" /\ call.op = "connect"
    /\ pre.pool = "Some" /\ ~pre.live
    /\ openConns = 0
    /\ \E t \in Tables : TableIds(db[t]) # {}

\* ------------------------------------------- properties: expression builder
IsConjunction(x) == x.kind = "Conjunction"
IsLeaf(x) == x.kind \in {"Simple", "Nest"}
\* no two Conjunction nodes adjacent, no two leaves adjacent, no Conjunction
\* at either end
WellFormed(e) ==
    /\ \A i \in 1..(Len(e) - 1) : ~(IsConjunction(e[i]) /\ IsConjunction(e[i + 1]))
    /\ \A i \in 1..(Len(e) - 1) : ~(IsLeaf(e[i]) /\ IsLeaf(e[i + 1]))
    /\ e # <<>> => (~IsConjunction(e[1]) /\ ~IsConjunction(e[Len(e)]))

\* C18 (as claimed): finish() is never called on the state entered by
\* appending a Conjunction: no Expressions is obtained from a builder whose
\* last appended node is AND/OR.
C18_NoFinishAfterConjunction ==
    bstate = "finished" =>
        /\ finFrom # "Conjunction"
        /\ made # <<>> => ~IsConjunction(made[Len(made)])

\* C19 (as claimed, leaving aside an Expressions finished on the Conjunction
\* state): every Expressions built, from a Condition, from
\* Expressions::default() or from an Expressions built before, has no two
\* Conjunction nodes adjacent, no two leaves adjacent, and no Conjunction at
\* its start or end.
C19_BuiltWellFormed ==
    (bstate = "finished" /\ finFrom # "Conjunction") => WellFormed(made)

\* C20 (as claimed): a builder started from a pre-built Expressions e has
\* Nest(e) as the first node of its stack, whatever is appended later, and
\* finished at once it yields the one-node sequence [Nest(e)].
C20_FromExpressionsIsNest ==
    (bstate # "none" /\ seed.from = "expressions") =>
        /\ Len(stack) >= 1 /\ stack[1] = NestNode(seed.e)
        /\ (bstate = "finished" /\ finFrom = "Nest" /\ Len(stack) <= 1) =>
            made = <<NestNode(seed.e)>>

\* C21: a builder started from a Condition holds exactly the nodes it was
\* given, in call order: each append adds its node at the end and changes no
\* earlier node; the Expressions it finishes to is that sequence, and
\* serializing then deserializing the Expressions yields the same sequence.
C21_NodesInCallOrder ==
    (bstate # "none" /\ seed.from \in {"condition", "append"}) =>
        /\ stack = given
        /\ bstate = "finished" =>
            /\ made = given
            /\ DeserializeExpressions(SerializeExpressions(made)) = given

\* C21 witness: a finished Condition Conjunction Nest sequence whose group
\* holds a Conjunction
C21_Witness ==
    /\ bstate = "finished" /\ finFrom = "Nest"
    /\ seed.from = "condition"
    /\ Len(given) = 3
    /\ given[3].kind = "Nest"
    /\ Len(given[3].sub) = 3
    /\ made = given

\* ------------------------------------------------- properties: transposer
\* row i (from 0) of a table, and its rows in order
RowAt(f, i) == Row(f.index[i + 1], [j \in 1..Len(f.data) |-> f.data[j][i + 1]])
RowsOfFrame(f) == [i \in 1..Height(f) |-> RowAt(f, i - 1)]
\* what n calls of next() return
RECURSIVE Collect(_, _)
Collect(it, n) ==
    IF n = 0 THEN <<>> ELSE <<IterNextValue(it)>> \o Collect(IterNextState(it), n - 1)
Built == rcall.op = "from_rows" /\ rres.ok
\* the rows all have the same length
SameLength(rows) == \A i \in 1..Len(rows) : Len(rows[i].data) = Len(rows[1].data)
BuiltEqual == Built /\ SameLength(rcall.rows)
\* an index value of the table equals the identity
Present(f, identity) == \E q \in 1..Len(f.index) : f.index[q] = identity
\* the least position (from 0) whose index value equals the identity
PositionOf(f, identity) ==
    CHOOSE q \in 0..(Len(f.index) - 1) :
        /\ f.index[q + 1] = identity
        /\ \A r \in 1..q : f.index[r] # identity
\* the row a table holds for an inserted Row
Held1(row) == RowAt(FromRows(<<row>>), 0)

C23_EmptyInputAlways ==
    /\ (rcall.op = "from_rows" /\ rcall.rows = <<>>) =>
           (rres.err = "EmptyInput" /\ ~frame.ok)
    /\ (rcall.op = "from_row_values" /\ rcall.values = <<>>) =>
           (rres.err = "EmptyInput" /\ ~frame.ok)
    /\ (rcall.op \in {"insert_rows_by_idx", "insert_rows"} /\ rcall.rows = <<>>) =>
           (rres.err = "EmptyInput" /\ frame = rpre)

\* C23 (amended): from_rows, from_row_values and insert_rows_by_idx given no
\* rows fail with EmptyInput; insert_rows given no rows fails with EmptyInput
\* when an index value equals the identity and with IndexNotFound when none
\* does; in each case no table is produced and the target is left as it was.
C23_EmptyInput ==
    /\ (rcall.op = "from_rows" /\ rcall.rows = <<>>) =>
           (rres.err = "EmptyInput" /\ ~frame.ok)
    /\ (rcall.op = "from_row_values" /\ rcall.values = <<>>) =>
           (rres.err = "EmptyInput" /\ ~frame.ok)
    /\ (rcall.op = "insert_rows_by_idx" /\ rcall.rows = <<>>) =>
           (rres.err = "EmptyInput" /\ frame = rpre)
    /\ (rcall.op = "insert_rows" /\ rcall.rows = <<>>) =>
           /\ rres.err = (IF Present(rpre, rcall.index) THEN "EmptyInput"
                          ELSE "IndexNotFound")
           /\ frame = rpre

\* C23 witness: insert_rows with no rows and an identity the index lacks
C23_Witness ==
    /\ rcall.op = "insert_rows" /\ rcall.rows = <<>>
    /\ Height(rpre) > 0
    /\ ~Present(rpre, rcall.index)
    /\ rres.err = "IndexNotFound"

\* C24: the index of the table from_rows built is the rows' identity values
\* in input order, and the dense sequential index 0..height when the rows
\* carry no identity.
C24_IndexOfFromRows ==
    Built =>
        IF \A i \in 1..Len(rcall.rows) : rcall.rows[i].index = Null
        THEN frame.index = [i \in 1..Height(frame) |-> i - 1]
        ELSE frame.index = [i \in 1..Len(rcall.rows) |-> rcall.rows[i].index]

\* C24 witness: a table built from two rows made without identity
C24_Witness ==
    /\ Built
    /\ Len(rcall.rows) = 2
    /\ rcall.rows[1].index = Null /\ rcall.rows[2].index = Null
    /\ frame.index = <<0, 1>>

\* C25: from_row_values with width n taken from the first row: with no
\* index_col, or Some(i) with i >= n, the call succeeds with n data columns
\* and the default sequential index; with Some(i), i < n, column i becomes the
\* index and the other n-1 columns stay in their order.
C25_IndexColumn ==
    (rcall.op = "from_row_values" /\ rcall.values # <<>>) =>
        LET v == rcall.values
            m == Len(v)
            n == Len(v[1])
            i == rcall.index_col.i
        IN  /\ rres.ok /\ frame.ok
            /\ IF rcall.index_col.some /\ i < n
               THEN /\ Width(frame) = n - 1
                    /\ frame.index = [r \in 1..m |-> v[r][i + 1]]
                    /\ \A j \in 1..(n - 1) : \A r \in 1..m :
                           frame.data[j][r] = v[r][IF j <= i THEN j ELSE j + 1]
               ELSE /\ Width(frame) = n
                    /\ frame.index = [r \in 1..m |-> r - 1]
                    /\ \A j \in 1..n : \A r \in 1..m : frame.data[j][r] = v[r][j]

\* C25 witness: the first of two columns taken as the index
C25_Witness ==
    /\ rcall.op = "from_row_values" /\ rres.ok
    /\ rcall.index_col = IndexCol(0)
    /\ Len(rcall.values) = 2 /\ Len(rcall.values[1]) = 2
    /\ Width(frame) = 1
    /\ frame.index[1] = rcall.values[1][1]

\* C26: get_row_by_idx(i) fails with OutOfBounds(i, height) for every
\* i >= height, a table of height zero included; for i < height it returns the
\* Row whose data is the i-th value of each column in column order and whose
\* index is the i-th index value; the table is not modified.
C26_GetRowByIdx ==
    rcall.op = "get_row_by_idx" =>
        LET i == rcall.idx
            h == Height(rpre)
        IN  /\ frame = rpre
            /\ i >= h => rres = RowErr("OutOfBounds", i, h)
            /\ i < h =>
                /\ rres.ok
                /\ rres.row.data = [j \in 1..Width(rpre) |-> rpre.data[j][i + 1]]
                /\ rres.row.index = rpre.index[i + 1]

\* C26 witness: a read at position 0 of a table of height zero that has
\* columns
C26_Witness ==
    /\ rcall.op = "get_row_by_idx" /\ rcall.idx = 0
    /\ rpre.ok /\ Width(rpre) = 2 /\ Height(rpre) = 0
    /\ rres.err = "OutOfBounds"

\* C27: get_row(identity) fails with IndexNotFound when no index value equals
\* the identity; otherwise it returns what get_row_by_idx(p) returns for the
\* position p the lookup resolves, and the index of the returned Row equals
\* the identity.
C27_GetRow ==
    rcall.op = "get_row" =>
        /\ frame = rpre
        /\ ~Present(rpre, rcall.index) => rres = RowErr("IndexNotFound", rcall.index, 0)
        /\ Present(rpre, rcall.index) =>
            /\ rres = GetRowByIdx(rpre, PositionOf(rpre, rcall.index))
            /\ rres.ok => rres.row.index = rcall.index

\* C27 witness: a lookup of an identity two rows of different data share
C27_Witness ==
    /\ rcall.op = "get_row" /\ rres.ok
    /\ Height(rpre) >= 2
    /\ \E a, b \in 0..(Height(rpre) - 1) :
        /\ a < b
        /\ rpre.index[a + 1] = rcall.index /\ rpre.index[b + 1] = rcall.index
        /\ RowAt(rpre, a) # RowAt(rpre, b)
        /\ rres.row = RowAt(rpre, a)

\* C28: a successful insert_row_by_idx(k, row) on a table of height h, for
\* 0 <= k <= h, yields a table of height h+1 in which position k holds the
\* inserted row (its data, and its identity as the table built from it holds
\* it), positions 0..k-1 hold the former rows 0..k-1 and positions k+1..h
\* hold the former rows k..h-1 in the same order; append(row) is the case
\* k = h.
C28_InsertRowByIdx ==
    (rcall.op \in {"insert_row_by_idx", "append"} /\ rres.ok) =>
        LET h == Height(rpre)
            k == IF rcall.op = "append" THEN h ELSE rcall.idx
            row == rcall.rows[1]
        IN  k <= h =>
                /\ Height(frame) = h + 1
                /\ Len(frame.index) = h + 1
                /\ RowAt(frame, k) = Held1(row)
                /\ RowAt(frame, k).data = row.data
                /\ row.index # Null => RowAt(frame, k).index = row.index
                /\ \A i \in 0..(k - 1) : RowAt(frame, i) = RowAt(rpre, i)
                /\ \A i \in k..(h - 1) : RowAt(frame, i + 1) = RowAt(rpre, i)

\* C28 witness: a row inserted between the two rows of a table
C28_Witness ==
    /\ rcall.op = "insert_row_by_idx" /\ rres.ok
    /\ Height(rpre) = 2 /\ rcall.idx = 1
    /\ RowAt(rpre, 0) # RowAt(rpre, 1)
    /\ RowAt(frame, 1).data = rcall.rows[1].data
    /\ RowAt(frame, 1) # RowAt(rpre, 0) /\ RowAt(frame, 1) # RowAt(rpre, 1)

\* C29: insert_row(identity, row) and insert_rows(identity, rows) fail with
\* IndexNotFound and leave the table unchanged when no index value equals the
\* identity; otherwise, when they succeed, the new rows stand immediately
\* before the row at the position resolved for the identity, the former rows
\* keep their order, and the height is raised by the number of rows inserted.
C29_InsertAtIdentity ==
    rcall.op \in {"insert_row", "insert_rows"} =>
        /\ ~Present(rpre, rcall.index) =>
            /\ rres.err = "IndexNotFound"
            /\ frame = rpre
        /\ (Present(rpre, rcall.index) /\ rres.ok) =>
            LET p == PositionOf(rpre, rcall.index)
                n == Len(rcall.rows)
                h == Height(rpre)
                new == FromRows(rcall.rows)
            IN  /\ Height(frame) = h + n
                /\ \A i \in 0..(p - 1) : RowAt(frame, i) = RowAt(rpre, i)
                /\ \A i \in 0..(n - 1) :
                    /\ RowAt(frame, p + i) = RowAt(new, i)
                    /\ RowAt(frame, p + i).data = rcall.rows[i + 1].data
                /\ \A i \in p..(h - 1) : RowAt(frame, i + n) = RowAt(rpre, i)
                /\ RowAt(frame, p + n).index = rcall.index

\* C29 witness: a row inserted before the second of the two rows of a table
C29_Witness ==
    /\ rcall.op = "insert_row" /\ rres.ok
    /\ Height(rpre) = 2
    /\ Present(rpre, rcall.index)
    /\ PositionOf(rpre, rcall.index) = 1
    /\ Height(frame) = 3
    /\ RowAt(frame, 1).data = rcall.rows[1].data
    /\ RowAt(frame, 2) = RowAt(rpre, 1)
    /\ RowAt(frame, 1) # RowAt(rpre, 1)

\* C30: the row iterator of a table of height h yields exactly h rows, the
\* i-th the row i of the table (index value and every column's i-th value in
\* column order), and returns None on every call after them: it never yields
\* more than h rows.
C30_IteratorYieldsHeight ==
    iter.on =>
        LET h == Height(rpre)
        IN  /\ rcall.op = "into_iter"
            /\ \A n \in 1..Len(yielded) :
                   yielded[n] = (IF n <= h THEN Some(RowAt(rpre, n - 1)) ELSE None)
            /\ Len(yielded) >= h => StepperExhausted(iter.stepper)

\* C30 witness: the iterator of a table of two different rows, called twice
\* more after its two rows
C30_Witness ==
    /\ iter.on
    /\ Height(rpre) = 2 /\ Width(rpre) = 2
    /\ RowAt(rpre, 0) # RowAt(rpre, 1)
    /\ Len(yielded) = 4
    /\ yielded[2].some /\ ~yielded[3].some /\ ~yielded[4].some

\* the calls that build or change a table
Inserts == {"append", "insert_row_by_idx", "insert_row", "insert_rows_by_idx", "insert_rows"}
\* every column is as long as the table is high, and so is the index
Rectangular(f) ==
    /\ \A j \in 1..Len(f.data) : Len(f.data[j]) = Height(f)
    /\ Len(f.index) = Height(f)

\* C31 (as claimed): every table built by from_rows / from_row_values and
\* changed by any sequence of append and insert calls, successful or failed,
\* has every column as long as the table is high and an index of that
\* length, and after an append or insert it has the column names and the
\* column count it had before.
C31_TableShape ==
    (frame.ok /\ rcall.op \in Inserts \cup {"from_rows", "from_row_values"}) =>
        /\ Rectangular(frame)
        /\ rcall.op \in Inserts =>
            (frame.names = rpre.names /\ Width(frame) = Width(rpre))


\* ------------------------------------------------- properties: from_str
\* position of the first colon of a string, one past its end when it has none
RECURSIVE FirstColon(_)
FirstColon(str) ==
    IF str = <<>> \/ Head(str) = ":" THEN 1 ELSE 1 + FirstColon(Tail(str))
Token(str) == SubSeq(str, 1, FirstColon(str) - 1)

\* C32: from_str selects the dialect from the text before the first colon of
\* the connection string: the tokens mysql, postgres and sqlite select those
\* dialects and any other token, the whole string when it has no colon and
\* the empty string included, selects sqlite; the engine starts with no
\* connection and keeps the connection string as given.
C32_FromStr ==
    /\ pool = "None"
    /\ conn_str = from_arg
    /\ driver = (IF Token(from_arg) = <<"mysql">> THEN "Mysql"
                 ELSE IF Token(from_arg) = <<"postgres">> THEN "Postgres"
                 ELSE IF Token(from_arg) = <<"sqlite">> THEN "Sqlite"
                 ELSE "Sqlite")

\* C32 witness: an engine made from mysql:/x
C32_Witness ==
    /\ from_arg = <<"mysql", ":", "/">>
    /\ conn_str = from_arg
    /\ driver = "Mysql"
    /\ pool = "None"

\* C33 (as claimed): after a successful disconnect() the engine is back in
\* the not-connected state: the handle is gone, a following connect() is not
\* rejected with ConnectionExists, and a following guarded operation fails
\* with NoConnection without a round trip on the closed handle.
C33_DisconnectResets ==
    /\ (pc = "done" /\ call.op = "disconnect" /\ result = Ok(0)) => pool = "None"
    /\ (pc = "done" /\ call.op = "connect" /\ ~pre.live) =>
           result # Err("ConnectionExists")
    /\ (pc # "idle" /\ call.op \in GuardedOps /\ ~pre.live) =>
           (pc = "done" /\ result = Err("NoConnection") /\ log = <<>>)

Count(name) == Cardinality({i \in 1..Len(log) : log[i].rt = name})
RtOk(name) == \E i \in 1..Len(log) : log[i].rt = name /\ log[i].ok
RtErr(name) == \E i \in 1..Len(log) : log[i].rt = name /\ ~log[i].ok

\* C34: in every save under FailIfExists or Replace, commit is invoked if and
\* only if CREATE TABLE and INSERT both succeeded (and no DROP failed); commit
\* and rollback are each invoked at most once and never both; a save that
\* returns the error of its CREATE TABLE or INSERT leaves the database as it
\* was before the call, so a DROP it issued is not committed.
C34_CommitIffAllSucceeded ==
    InTxnSave =>
        /\ Count("commit") <= 1 /\ Count("rollback") <= 1
        /\ ~(Has("commit") /\ Has("rollback"))
        /\ Has("commit") => (RtOk("create") /\ RtOk("insert") /\ ~RtErr("drop"))
        /\ (pc = "done" /\ RtOk("create") /\ RtOk("insert")) => Has("commit")
        /\ (pc = "done" /\ result \in {Err("backend@create"), Err("backend@insert")}) =>
               (db = pre.db /\ txn.st # "committed")

C34_Witness ==
    /\ pc = "done" /\ InSave("Replace") /\ Connected
    /\ TableIds(pre.db[call.table]) # {}
    /\ RtOk("drop") /\ RtErr("create")
    /\ result = Err("backend@create")
    /\ ~Has("commit") /\ ~Has("rollback")
    /\ db = pre.db

UpsertOrder == <<"select_ids", "insert", "update">>
\* the rows of the insert partition are in the table
InsertedPersist ==
    \A r \in Range(part.ins.rows) :
        /\ db[call.table].exists
        /\ db[call.table].rows[r.id] = r.val

\* C35: save(Upsert) issues its round trips in the order select_existing_ids,
\* INSERT, UPDATE batch, each at most once and outside any transaction; a
\* failed step is the call's last and its error is returned; when the call
\* fails after the INSERT succeeded the inserted rows stay in the table and
\* no rollback is issued.
C35_UpsertSteps ==
    InSave("Upsert") =>
        /\ IsPrefix(Names(log), UpsertOrder)
        /\ txn.st = "none"
        /\ ~Has("begin") /\ ~Has("commit") /\ ~Has("rollback")
        /\ \A i \in 1..Len(log) :
               ~log[i].ok => (i = Len(log) /\ pc = "done" /\ ~result.ok)
        /\ (pc = "done" /\ ~result.ok /\ RtOk("insert")) =>
               /\ InsertedPersist
               /\ result.err \in {"backend@update", "render@update", "IndexType"}

C35_Witness ==
    /\ pc = "done" /\ InSave("Upsert") /\ Connected
    /\ Names(log) = UpsertOrder
    /\ log[2].ok /\ ~log[3].ok
    /\ result = Err("backend@update")
    /\ part.ins.rows # <<>> /\ part.upd.rows # <<>>
    /\ InsertedPersist
    /\ \E r \in Range(part.ins.rows) : pre.db[call.table].rows[r.id] # r.val

ByIdxInserts == {"insert_row_by_idx", "insert_rows_by_idx"}
\* the new rows are of another type than the table's
TypeMismatch == \E i \in 1..Len(rcall.rows) : \E j \in 1..Len(rcall.rows[i].data) :
                    DType(rcall.rows[i].data[j]) = "Utf8"

\* C37: whenever insert_row_by_idx or insert_rows_by_idx returns an error
\* (EmptyInput, or the new rows' column count or types not the table's), the
\* target table is exactly the table before the call; whenever it returns Ok
\* the table is one row list longer.
C37_FailedInsertKeepsTable ==
    (rcall.op \in ByIdxInserts) =>
        /\ ~rres.ok => (frame = rpre /\ rres.err \in {"EmptyInput", "core@set_column_names", "core@vconcat"})
        /\ (Len(rcall.rows) = 0 \/ TypeMismatch
            \/ \E i \in 1..Len(rcall.rows) : Len(rcall.rows[i].data) # Width(rpre)) => ~rres.ok
        /\ rres.ok => Height(frame) = Height(rpre) + Len(rcall.rows)

C37_Witness ==
    /\ rcall.op = "insert_rows_by_idx" /\ rcall.idx = 1
    /\ TypeMismatch
    /\ ~rres.ok /\ rres.err = "core@vconcat"
    /\ Height(rpre) = 1 + 1
    /\ frame = rpre

\* C38: from_rows takes the width from the first row only. Whenever it
\* returns a table, the table has that many columns, each as long as the row
\* list, holding the rows' first values: the values of a longer row beyond the
\* width are dropped without error. A row shorter than the first makes the
\* call abort: no table, no EmptyInput, no OutOfBounds is returned.
C38_WidthFromFirstRow ==
    (rcall.op = "from_rows" /\ Len(rcall.rows) > 0) =>
        LET rows == rcall.rows
            n == Len(rows[1].data)
            short == \E i \in 1..Len(rows) : Len(rows[i].data) < n
        IN  /\ short => (Aborted /\ ~rres.ok /\ rres.err = "abort")
            /\ ~short =>
                /\ rres.ok /\ frame.ok
                /\ Width(frame) = n /\ Height(frame) = Len(rows)
                /\ Rectangular(frame)
                /\ \A j \in 1..n : \A i \in 1..Len(rows) : frame.data[j][i] = rows[i].data[j]

C38_Witness ==
    /\ rcall.op = "from_rows" /\ rres.ok
    /\ Len(rcall.rows) = 1 + 1
    /\ Len(rcall.rows[1].data) = 1 /\ Len(rcall.rows[1 + 1].data) = 1 + 1
    /\ frame.data = <<<<rcall.rows[1].data[1], rcall.rows[1 + 1].data[1]>>>>

\* a call of from_rows aborted on a row shorter than the first
C38_AbortReached ==
    /\ rcall.op = "from_rows" /\ Aborted
    /\ Len(rcall.rows[1 + 1].data) < Len(rcall.rows[1].data)

====
